---- MODULE Spec2Model ----
(***************************************************************************)
(* A model of backend/csv_handler.py: tables (pandas DataFrames) are       *)
(* validated on a key ("operation") column, compared column by column      *)
(* against the first table, and the rows whose difference exceeds a        *)
(* threshold are collected in the highlight set of the Excel report.       *)
(***************************************************************************)
EXTENDS Integers, Sequences, FiniteSets, TLC

VARIABLES
    pc,                    \* which call of the pipeline runs next
    upload_folder,         \* the stored uploads: file name -> file
    relative_file_paths,   \* read_csv_files: the requested file names
    ri,                    \* index of the next file of the read loop
    errors_data,           \* read_csv_files: the per-file errors
    parse_attempts,        \* the (file, encoding) decode/parse calls made
    operation_column,      \* the key column of the request
    dataframes_data,       \* parsed tables handed to validation
    vi,                    \* index of the next item of the validation loop
    validated_dfs,         \* validate_dataframes_for_processing: accepted
    validation_errors,     \* validate_dataframes_for_processing: rejected
    ci,                    \* index of the next "other" table of the compare loop
    comparison_results,    \* perform_column_comparison: (col, ref, other) -> series
    comparison_warnings,   \* perform_column_comparison: warnings, in order
    threshold_value,       \* generate_excel_output: threshold
    rows_to_highlight_map, \* generate_excel_output: set of (file, key value)
    now,                   \* the clock, in seconds
    processed_folder,      \* the report directory: path -> artifact
    excel_outcome,         \* process_files: what became of the report
    response,              \* process_files: the response payload
    di,                    \* index of the next file of the cleanup loop
    cleanup_log,           \* the deletion errors printed by the cleanup
    download,              \* download_file: the request, its position, its response
    workers                \* process_files run by several threads: each one's locals

vars == <<pc, upload_folder, relative_file_paths, ri, errors_data,
          parse_attempts, operation_column, dataframes_data, vi, validated_dfs,
          validation_errors, ci, comparison_results, comparison_warnings,
          threshold_value, rows_to_highlight_map, now, processed_folder,
          excel_outcome, response, di, cleanup_log, download, workers>>

\* The state of the service around the library calls.
serviceVars == <<now, processed_folder, excel_outcome, response, di, cleanup_log,
                 download, workers>>

\* The state of the other handlers and threads of the service.
handlerVars == <<download, workers>>

(***************************************************************************)
(* Bounds of the model.                                                    *)
(***************************************************************************)
MaxKey == 2          \* key values are 1..MaxKey
MaxVal == 1          \* data values are 0..MaxVal
MaxRows == 2         \* tables have at most MaxRows rows

(***************************************************************************)
(* Cells.  A cell is a number, a string or the missing value (NaN / None). *)
(***************************************************************************)
Num(n) == [t |-> "num", n |-> n, s |-> ""]
Str(s) == [t |-> "str", n |-> 0, s |-> s]
NaN == [t |-> "nan", n |-> 0, s |-> ""]

isna(c) == c.t = "nan"

\* The decimal numerals the model's text cells are written with.
Digits == <<"1", "2", "3", "4">>

\* pd.to_numeric(..., errors='coerce') on one cell: a number stays, a
\* numeral is parsed, anything else becomes NaN.
to_numeric_cell(c) ==
    IF c.t = "num" THEN c
    ELSE IF c.t = "str" /\ \E k \in DOMAIN Digits : Digits[k] = c.s
         THEN Num(CHOOSE k \in DOMAIN Digits : Digits[k] = c.s)
         ELSE NaN

to_numeric(col) == [i \in DOMAIN col |-> to_numeric_cell(col[i])]

(***************************************************************************)
(* DataFrames: ordered column names, a dtype and the cells per column.     *)
(***************************************************************************)
Range(f) == {f[x] : x \in DOMAIN f}

DataFrame(columns, dtype, data) ==
    [columns |-> columns, dtype |-> dtype, data |-> data]

HasColumn(df, c) == c \in Range(df.columns)

\* len(df.columns) and len(df).
NCols(df) == Len(df.columns)

NRows(df) == IF NCols(df) = 0 THEN 0 ELSE Len(df.data[df.columns[1]])

is_numeric_dtype(df, c) == df.dtype[c] = "num"

isna_any(col) == \E i \in DOMAIN col : isna(col[i])
isna_all(col) == \A i \in DOMAIN col : isna(col[i])
notna_sum(col) == Cardinality({i \in DOMAIN col : ~isna(col[i])})

\* df[c] = col, the column becoming numeric (line 189).
SetNumericColumn(df, c, col) ==
    [df EXCEPT !.dtype[c] = "num", !.data[c] = col]

RECURSIVE SelectSeq2(_, _, _)
\* [x for x in s if P(x)], order kept; P is given as the set of kept values.
SelectSeq2(s, keep, i) ==
    IF i > Len(s) THEN <<>>
    ELSE (IF s[i] \in keep THEN <<s[i]>> ELSE <<>>) \o SelectSeq2(s, keep, i + 1)

\* Lines 204-207: the numeric columns other than the key column, in order.
NumericColumns(df, opcol) ==
    SelectSeq2(df.columns,
               {c \in Range(df.columns) : c # opcol /\ is_numeric_dtype(df, c)}, 1)

(***************************************************************************)
(* validate_dataframes_for_processing, one iteration of its loop.          *)
(* The result is either an error record or a validated record.            *)
(***************************************************************************)
ValError(filename, kind) == [ok |-> FALSE, filename |-> filename, error |-> kind]

ValOk(filename, df, numeric_cols) ==
    [ok |-> TRUE, filename |-> filename, dataframe |-> df,
     numeric_columns |-> numeric_cols]

\* ValidateNumericKey without the check of line 197: a key column with a
\* missing value passes.
ValidateNumericKey_NoNaNCheck(filename, df, opcol) ==
    IF NumericColumns(df, opcol) = <<>>
    THEN ValError(filename, "NoNumericColumns")
    ELSE ValOk(filename, df, NumericColumns(df, opcol))

\* ValidateNumericKey with its two checks in the other order.
ValidateNumericKey_ColumnsFirst(filename, df, opcol) ==
    IF NumericColumns(df, opcol) = <<>>
    THEN ValError(filename, "NoNumericColumns")
    ELSE IF isna_any(df.data[opcol])
         THEN ValError(filename, "ContainsNaN")
         ELSE ValOk(filename, df, NumericColumns(df, opcol))

\* Lines 197-220, reached with the key column numeric.
ValidateNumericKey(filename, df, opcol) ==
    IF isna_any(df.data[opcol])
    THEN ValError(filename, "ContainsNaN")
    ELSE IF NumericColumns(df, opcol) = <<>>
         THEN ValError(filename, "NoNumericColumns")
         ELSE ValOk(filename, df, NumericColumns(df, opcol))

\* ValidateCoercedKey without the assignment of line 189: the converted
\* column is checked but the table keeps its text column.
ValidateCoercedKey_KeepsText(filename, df, opcol) ==
    LET original_non_na_count == notna_sum(df.data[opcol])
        converted_op_col == to_numeric(df.data[opcol])
    IN  IF isna_all(converted_op_col) /\ original_non_na_count > 0
        THEN ValError(filename, "DataLoss")
        ELSE IF isna_any(converted_op_col)
             THEN ValError(filename, "ConvertedNaN")
             ELSE ValidateNumericKey(filename, df, opcol)

\* Lines 178-195: the key column is not numeric and is coerced.
ValidateCoercedKey(filename, df, opcol) ==
    LET original_non_na_count == notna_sum(df.data[opcol])
        converted_op_col == to_numeric(df.data[opcol])
    IN  IF isna_all(converted_op_col) /\ original_non_na_count > 0
        THEN ValError(filename, "DataLoss")
        ELSE IF isna_any(converted_op_col)
             THEN ValError(filename, "ConvertedNaN")
             ELSE ValidateNumericKey(
                      filename, SetNumericColumn(df, opcol, converted_op_col), opcol)

\* Lines 167-220.
ValidateItemResult(item, opcol) ==
    IF ~HasColumn(item.dataframe, opcol)
    THEN ValError(item.filename, "NotFound")
    ELSE IF ~is_numeric_dtype(item.dataframe, opcol)
         THEN ValidateCoercedKey(item.filename, item.dataframe, opcol)
         ELSE ValidateNumericKey(item.filename, item.dataframe, opcol)

(***************************************************************************)
(* perform_column_comparison.                                              *)
(***************************************************************************)
Warning(type, col, ref, other) ==
    [type |-> type, column |-> col, ref |-> ref, other |-> other]

\* Lines 255-256 and 259-260: the key column and the listed numeric columns
\* that the table has (a set: the code passes the list through set()).
ColsToMerge(df, numeric_cols, opcol) ==
    {opcol} \cup {c \in Range(numeric_cols) : HasColumn(df, c) /\ c # opcol}

RECURSIVE JoinRows(_, _, _, _)
\* pd.merge(how='inner') on the key: the pairs (i, j) of row numbers with
\* equal key values, in the order of the left rows, then of the right rows.
JoinRows(left, right, i, j) ==
    IF i > Len(left) THEN <<>>
    ELSE IF j > Len(right) THEN JoinRows(left, right, i + 1, 1)
    ELSE (IF left[i] = right[j] THEN <<(<<i, j>>)>> ELSE <<>>)
         \o JoinRows(left, right, i, j + 1)

\* The suffix pd.merge gives a column: only a name both sides have gets one.
MergedName(c, suffix, overlap) == IF c \in overlap THEN c \o suffix ELSE c

\* Lines 265-271: the merged frame, as its joined row pairs and, for every
\* column name it has, the side and the column that name comes from.
Merge(ref_df, cols_ref, other_df, cols_oth, opcol) ==
    LET overlap == (cols_ref \cap cols_oth) \ {opcol}
        rows == JoinRows(ref_df.data[opcol], other_df.data[opcol], 1, 1)
        origin ==
            {[name |-> opcol, side |-> "ref", col |-> opcol]}
            \cup {[name |-> MergedName(c, "_REF", overlap), side |-> "ref", col |-> c]
                    : c \in cols_ref \ {opcol}}
            \cup {[name |-> MergedName(c, "_OTH", overlap), side |-> "oth", col |-> c]
                    : c \in cols_oth \ {opcol}}
    IN  [rows |-> rows, origin |-> origin,
         columns |-> {o.name : o \in origin}]

\* merged_df[name]: the cells of one merged column, one per joined row.
MergedColumn(merged, ref_df, other_df, name) ==
    LET o == CHOOSE x \in merged.origin : x.name = name
    IN  [r \in DOMAIN merged.rows |->
            IF o.side = "ref" THEN ref_df.data[o.col][merged.rows[r][1]]
            ELSE other_df.data[o.col][merged.rows[r][2]]]

MergedIsNumeric(merged, ref_df, other_df, name) ==
    LET o == CHOOSE x \in merged.origin : x.name = name
    IN  IF o.side = "ref" THEN is_numeric_dtype(ref_df, o.col)
        ELSE is_numeric_dtype(other_df, o.col)

Abs(x) == IF x < 0 THEN 0 - x ELSE x

\* AbsDiff without .abs(): the signed difference.
AbsDiff_Signed(a, b) == IF isna(a) \/ isna(b) THEN NaN ELSE Num(a.n - b.n)

\* (a - b).abs() on two cells: NaN if either is missing.
AbsDiff(a, b) == IF isna(a) \/ isna(b) THEN NaN ELSE Num(Abs(a.n - b.n))

\* Lines 316-321: the stored frame, one (key value, difference) per joined row.
DiffSeries(merged, ref_df, other_df, opcol, ref_col, other_col) ==
    LET k == MergedColumn(merged, ref_df, other_df, opcol)
        a == MergedColumn(merged, ref_df, other_df, ref_col)
        b == MergedColumn(merged, ref_df, other_df, other_col)
    IN  [r \in DOMAIN merged.rows |->
            [key |-> k[r], difference |-> AbsDiff(a[r], b[r])]]

\* Lines 290-321: what one column of the reference adds: a warning or a series.
CompareColumn(acc, merged, ref, other, opcol, col_name) ==
    LET ref_col == col_name \o "_REF"
        other_col == col_name \o "_OTH"
        warn(type) ==
            [acc EXCEPT !.warnings =
                Append(@, Warning(type, col_name, ref.filename, other.filename))]
    IN  IF ref_col \notin merged.columns
        THEN warn("InternalLogicWarning")
        ELSE IF other_col \notin merged.columns
        THEN warn("ColumnMissingInOtherWarning")
        ELSE IF ~MergedIsNumeric(merged, ref.dataframe, other.dataframe, ref_col)
                \/ ~MergedIsNumeric(merged, ref.dataframe, other.dataframe, other_col)
        THEN warn("DataTypeWarning")
        ELSE [acc EXCEPT !.results =
                (<<col_name, ref.filename, other.filename>> :>
                    DiffSeries(merged, ref.dataframe, other.dataframe, opcol,
                               ref_col, other_col)) @@ @]

RECURSIVE CompareColumns(_, _, _, _, _, _)
\* Line 286: the loop over the reference's numeric columns, from column n on.
CompareColumns(acc, merged, ref, other, opcol, n) ==
    IF n > Len(ref.numeric_columns) THEN acc
    ELSE CompareColumns(
             CompareColumn(acc, merged, ref, other, opcol, ref.numeric_columns[n]),
             merged, ref, other, opcol, n + 1)

\* Lines 279-284 returning instead of continuing: an empty join gives up
\* the series stored so far.
ComparePairResult_EmptyJoinAborts(acc, ref, other, opcol) ==
    LET merged == Merge(ref.dataframe,
                        ColsToMerge(ref.dataframe, ref.numeric_columns, opcol),
                        other.dataframe,
                        ColsToMerge(other.dataframe, other.numeric_columns, opcol),
                        opcol)
    IN  IF merged.rows = <<>>
        THEN [results |-> [k \in {} |-> <<>>],
              warnings |-> Append(acc.warnings,
                  Warning("MergeWarning", "", ref.filename, other.filename))]
        ELSE CompareColumns(acc, merged, ref, other, opcol, 1)

\* Lines 247-321: one iteration of the loop over the other tables.
ComparePairResult(acc, ref, other, opcol) ==
    LET merged == Merge(ref.dataframe,
                        ColsToMerge(ref.dataframe, ref.numeric_columns, opcol),
                        other.dataframe,
                        ColsToMerge(other.dataframe, other.numeric_columns, opcol),
                        opcol)
    IN  IF merged.rows = <<>>
        THEN [acc EXCEPT !.warnings =
                Append(@, Warning("MergeWarning", "", ref.filename, other.filename))]
        ELSE CompareColumns(acc, merged, ref, other, opcol, 1)

(***************************************************************************)
(* generate_excel_output: the highlight set (lines 339-349).               *)
(***************************************************************************)
\* Line 345 with ">=": an entry equal to the threshold counts too.
Exceeding_OrEqual(series, threshold) ==
    {r \in DOMAIN series :
        ~isna(series[r].difference) /\ Abs(series[r].difference.n) >= threshold}

\* Line 345: the entries of a series whose difference exceeds the threshold.
\* A NaN difference compares False.
Exceeding(series, threshold) ==
    {r \in DOMAIN series :
        ~isna(series[r].difference) /\ Abs(series[r].difference.n) > threshold}

\* Lines 342-349 without line 348: only the other file's row is flagged.
HighlightMap_OtherOnly(results, threshold) ==
    UNION {
        UNION { {<<k[3], results[k][r].key.n>>}
                  : r \in Exceeding(results[k], threshold) }
          : k \in DOMAIN results }

\* Lines 342-349.
HighlightMap(results, threshold) ==
    UNION {
        UNION { {<<k[2], results[k][r].key.n>>, <<k[3], results[k][r].key.n>>}
                  : r \in Exceeding(results[k], threshold) }
          : k \in DOMAIN results }

(***************************************************************************)
(* read_csv_files.  A stored file is its bytes, as runs of text bytes and  *)
(* null bytes, and what pandas makes of it: the result of                  *)
(* _try_parse_csv_with_encoding under each encoding, whether the first     *)
(* lines hold a delimiter candidate, whether the single-column re-parse    *)
(* succeeds.                                                               *)
(***************************************************************************)
\* Line 18 reading one byte less.
ChunkSize_OneShort == 1024 - 1

\* Line 18: chunk_size.
ChunkSize == 1024

\* Line 83.
Encodings == <<"utf-8-sig", "utf-8", "latin-1">>

Run(kind, len) == [kind |-> kind, len |-> len]

RECURSIVE ReadBytes(_, _)
\* f.read(size): the first size bytes of the runs, or all of them.
ReadBytes(runs, size) ==
    IF runs = <<>> \/ size = 0 THEN <<>>
    ELSE IF Head(runs).len <= size
         THEN <<Head(runs)>> \o ReadBytes(Tail(runs), size - Head(runs).len)
         ELSE <<Run(Head(runs).kind, size)>>

\* Lines 18-28: a null byte in the first chunk, or the file cannot be read.
is_likely_binary_from_chunk(file) ==
    IF ~file.readable THEN TRUE
    ELSE \E i \in DOMAIN ReadBytes(file.bytes, ChunkSize) :
            ReadBytes(file.bytes, ChunkSize)[i].kind = "nul"

EmptyFrame == DataFrame(<<>>, <<>>, <<>>)

Some(df) == [is_none |-> FALSE, df |-> df]
None == [is_none |-> TRUE, df |-> EmptyFrame]

BOM == "<BOM>"
PlainNames == {"id", "v", "w", "data"}

startswith_BOM(name) == \E c \in PlainNames : name = BOM \o c

\* col.replace(BOM, '', 1)
StripBOM(name) ==
    IF startswith_BOM(name) THEN CHOOSE c \in PlainNames : name = BOM \o c
    ELSE name

\* Line 109: the columns renamed, the cells kept.
StripBOMColumns(df) ==
    DataFrame([i \in DOMAIN df.columns |-> StripBOM(df.columns[i])],
              [c \in {StripBOM(o) : o \in Range(df.columns)} |->
                  df.dtype[CHOOSE o \in Range(df.columns) : StripBOM(o) = c]],
              [c \in {StripBOM(o) : o \in Range(df.columns)} |->
                  df.data[CHOOSE o \in Range(df.columns) : StripBOM(o) = c]])

\* Lines 107-109.
AfterBOMStrip(df, encoding) ==
    IF encoding = "utf-8-sig" /\ NCols(df) > 0 /\ startswith_BOM(df.columns[1])
    THEN StripBOMColumns(df)
    ELSE df

\* Lines 111-114.
BetterThanBest(current, best, encoding) ==
    \/ best.is_none
    \/ NCols(current) > NCols(best.df)
    \/ (encoding = "utf-8-sig" /\ (best.is_none \/ NCols(current) >= NCols(best.df)))

RECURSIVE EncodingLoop(_, _, _)
\* Lines 101-129: the encodings tried from the n-th on; acc holds the best
\* table so far, the error messages and the attempts made.
EncodingLoop(file, n, acc) ==
    IF n > Len(Encodings) THEN acc
    ELSE
      LET encoding == Encodings[n]
          out == file.parse[encoding]
          tried == [acc EXCEPT !.attempts = Append(@, encoding)]
      IN  IF out.kind = "EmptyDataError"
          THEN [tried EXCEPT
                  !.messages = Append(@, <<encoding, "File is empty">>),
                  !.best = IF @.is_none THEN Some(EmptyFrame) ELSE @]
          ELSE IF out.kind = "Exception"
          THEN EncodingLoop(file, n + 1,
                  [tried EXCEPT !.messages = Append(@, <<encoding, "Error">>)])
          ELSE IF out.kind = "None"
          THEN EncodingLoop(file, n + 1, tried)
          ELSE
            LET current == AfterBOMStrip(out.df, encoding)
                best == IF BetterThanBest(current, tried.best, encoding)
                        THEN Some(current) ELSE tried.best
            IN  IF NCols(best.df) > 1
                THEN [tried EXCEPT !.best = best]
                ELSE EncodingLoop(file, n + 1, [tried EXCEPT !.best = best])

\* Line 144: the file as one column named 'data'.
SingleColumnFrame(file) == file.single_column

\* Lines 134-148: a multi-column table with rows of a file whose first
\* lines show no delimiter candidate is re-parsed as one column.
OverSplitCorrection(file, acc) ==
    IF NCols(acc.best.df) > 1 /\ NRows(acc.best.df) > 0
    THEN LET sampled == [acc EXCEPT !.attempts = Append(@, "sample")]
         IN  IF ~file.sample_has_delimiter
             THEN IF file.single_column_ok
                  THEN [sampled EXCEPT !.attempts = Append(@, "single-column"),
                                       !.best = Some(SingleColumnFrame(file))]
                  ELSE [sampled EXCEPT !.attempts = Append(@, "single-column")]
             ELSE sampled
    ELSE acc

ReadError(attempts, kind) ==
    [ok |-> FALSE, error |-> kind, df |-> EmptyFrame, attempts |-> attempts]

ReadOk(attempts, df) ==
    [ok |-> TRUE, error |-> "", df |-> df, attempts |-> attempts]

\* Lines 97-158 with line 97 moved before the loop over the files: the best
\* table of the file read before is still there when the next file starts.
ParseFile_BestOfEarlierFileKept(file) ==
    LET earlier == IF dataframes_data = <<>> THEN None
                   ELSE Some(dataframes_data[Len(dataframes_data)].dataframe)
        acc == EncodingLoop(file, 1,
                   [best |-> earlier, messages |-> <<>>, attempts |-> <<>>])
    IN  IF ~acc.best.is_none
        THEN LET fin == OverSplitCorrection(file, acc)
             IN  IF NCols(fin.best.df) = 0
                 THEN ReadError(fin.attempts, "EmptyTable")
                 ELSE ReadOk(fin.attempts, fin.best.df)
        ELSE ReadError(acc.attempts, "CouldNotParse")

\* Lines 97-158.
ParseFile(file) ==
    LET acc == EncodingLoop(file, 1,
                   [best |-> None, messages |-> <<>>, attempts |-> <<>>])
    IN  IF ~acc.best.is_none
        THEN LET fin == OverSplitCorrection(file, acc)
             IN  IF NCols(fin.best.df) = 0
                 THEN ReadError(fin.attempts, "EmptyTable")
                 ELSE ReadOk(fin.attempts, fin.best.df)
        ELSE ReadError(acc.attempts, "CouldNotParse")

\* Lines 85-158 with a failure carried over: once a file has failed, the
\* files after it get its error.
ReadFileResult_FailureCarriedOver(folder, filename) ==
    IF errors_data # <<>>
    THEN ReadError(<<>>, errors_data[Len(errors_data)].error)
    ELSE IF filename \notin DOMAIN folder
    THEN ReadError(<<>>, "NotFound")
    ELSE IF is_likely_binary_from_chunk(folder[filename])
    THEN ReadError(<<>>, "Binary")
    ELSE ParseFile(folder[filename])

\* Lines 85-158: one iteration of the loop over the requested files.
ReadFileResult(folder, filename) ==
    IF filename \notin DOMAIN folder
    THEN ReadError(<<>>, "NotFound")
    ELSE IF is_likely_binary_from_chunk(folder[filename])
    THEN ReadError(<<>>, "Binary")
    ELSE ParseFile(folder[filename])

(***************************************************************************)
(* The input tables the model draws from.                                  *)
(***************************************************************************)
\* The file names a request of up to three files may carry: all different,
\* or one name occurring twice.
FileNameLists ==
    {<<"f1.csv", "f2.csv", "f3.csv">>,
     <<"f1.csv", "f2.csv", "f2.csv">>,
     <<"f1.csv", "f1.csv", "f2.csv">>}

\* A frame built from a list of [name, dtype, cells] columns.
Frame(cols) ==
    DataFrame([i \in DOMAIN cols |-> cols[i].name],
              [c \in {cols[i].name : i \in DOMAIN cols} |->
                  (CHOOSE x \in Range(cols) : x.name = c).dtype],
              [c \in {cols[i].name : i \in DOMAIN cols} |->
                  (CHOOSE x \in Range(cols) : x.name = c).cells])

Column(name, dtype, cells) == [name |-> name, dtype |-> dtype, cells |-> cells]

RowCounts == 0 .. MaxRows

KeyNumbers == {Num(k) : k \in 1 .. MaxKey}
KeyTexts == {Str(Digits[k]) : k \in 1 .. MaxKey} \cup {Str("x")}

\* Key columns of every shape: numeric with or without NaN, text that
\* converts, text that does not, text with missing cells.
KeyColumns(n) ==
    {Column("id", "num", cells) : cells \in [1 .. n -> KeyNumbers \cup {NaN}]}
    \cup {Column("id", "obj", cells) : cells \in [1 .. n -> KeyTexts \cup {NaN}]}

Zeros(n) == [i \in 1 .. n |-> Num(0)]
Texts(n) == [i \in 1 .. n |-> Str("x")]

\* Tables that vary in the key column: key absent or of any shape, with a
\* numeric, a text or no data column.
KeyRichTables ==
    UNION {
        {Frame(<<Column("v", "num", Zeros(n))>>),
         Frame(<<Column("w", "obj", Texts(n))>>)}
        \cup UNION {
            {Frame(<<k, Column("v", "num", Zeros(n))>>),
             Frame(<<k, Column("v", "obj", Texts(n))>>),
             Frame(<<k>>)} : k \in KeyColumns(n)}
      : n \in RowCounts}

\* A data column whose first cell varies (0, the largest value or NaN), the
\* others 0.
DataCells(n) ==
    {[i \in 1 .. n |-> IF i = 1 THEN c ELSE Num(0)]
        : c \in {Num(0), Num(MaxVal), NaN}}

\* Tables that vary in the data: the key column numeric (or numerals),
\* column v numeric, column w numeric, absent or (one-row tables) text.
DataRichTablesOf(keys, n) ==
    UNION {
        {Frame(<<k, Column("v", "num", v), Column("w", "num", Zeros(n))>>),
         Frame(<<k, Column("v", "num", v)>>)}
        \cup (IF n = 1
              THEN {Frame(<<k, Column("v", "num", v), Column("w", "obj", Texts(n))>>)}
              ELSE {})
      : k \in keys, v \in DataCells(n)}

DataRichTables ==
    UNION {DataRichTablesOf(
               {Column("id", "num", cells) : cells \in [1 .. n -> KeyNumbers]}, n)
             : n \in 1 .. MaxRows}
    \cup DataRichTablesOf({Column("id", "obj", <<Str(Digits[1])>>)}, 1)

\* The smaller family the lists of three tables are drawn from: keys in
\* increasing order, column v without NaN.
IsIncreasing(cells) ==
    \A i, j \in DOMAIN cells : i < j => cells[i].n < cells[j].n

CompactTables ==
    {t \in DataRichTables :
        /\ is_numeric_dtype(t, "id")
        /\ IsIncreasing(t.data["id"])
        /\ t.data["v"][1] \in {Num(0), Num(MaxVal)}
        /\ (HasColumn(t, "w") => is_numeric_dtype(t, "w"))}

Items(names, frames) ==
    [i \in DOMAIN frames |-> [filename |-> names[i], dataframe |-> frames[i]]]


Thresholds == (0 - 1) .. MaxVal

(***************************************************************************)
(* The stored files the model draws from.                                  *)
(***************************************************************************)
MaxFiles == 3        \* a request names at most MaxFiles files

Outcome(kind, df) == [kind |-> kind, df |-> df]

\* What one parse under one encoding can give: a table of two columns with
\* rows, the same with a byte-order mark left in the first name, a header
\* only, one column, nothing, or an exception.
ParseOutcomes ==
    {Outcome("df", Frame(<<Column("id", "num", [i \in 1 .. MaxRows |-> Num(i)]),
                           Column("v", "num", Zeros(MaxRows))>>)),
     Outcome("df", Frame(<<Column(BOM \o "id", "num", [i \in 1 .. MaxRows |-> Num(i)]),
                           Column("v", "num", Zeros(MaxRows))>>)),
     Outcome("df", Frame(<<Column("id", "obj", <<>>), Column("v", "obj", <<>>)>>)),
     Outcome("df", Frame(<<Column("data", "obj", Texts(1))>>)),
     Outcome("None", EmptyFrame),
     Outcome("EmptyDataError", EmptyFrame),
     Outcome("Exception", EmptyFrame)}

EncodingSet == {Encodings[i] : i \in DOMAIN Encodings}

StoredFile(bytes, readable, parse, has_delim, single_ok) ==
    [bytes |-> bytes, readable |-> readable, parse |-> parse,
     sample_has_delimiter |-> has_delim, single_column_ok |-> single_ok,
     single_column |-> Frame(<<Column("data", "obj", Texts(MaxRows + 1))>>)]

\* Contents around the chunk boundary: empty, text only, a null byte first,
\* last in the chunk, first after the chunk, in the middle.
ByteSamples ==
    {<<>>,
     <<Run("text", 10)>>,
     <<Run("text", 1025)>>,
     <<Run("nul", 1), Run("text", 10)>>,
     <<Run("text", 5), Run("nul", 1), Run("text", 5)>>,
     <<Run("text", 1023), Run("nul", 1)>>,
     <<Run("text", 1024), Run("nul", 1)>>,
     <<Run("text", 1023), Run("text", 1), Run("nul", 2)>>}

\* Text files of every parse behaviour.
TextFiles ==
    {StoredFile(<<Run("text", 10)>>, TRUE, parse, d, o)
        : parse \in [EncodingSet -> ParseOutcomes], d \in BOOLEAN, o \in BOOLEAN}

\* Files of every byte content, readable or not, that latin-1 would decode
\* to a table if it were tried.
ByteFiles ==
    {StoredFile(b, r,
                [e \in EncodingSet |->
                    IF e = "latin-1" THEN CHOOSE x \in ParseOutcomes :
                                             x.kind = "df" /\ NCols(x.df) = 1
                    ELSE Outcome("Exception", EmptyFrame)],
                TRUE, TRUE)
        : b \in ByteSamples, r \in BOOLEAN}

StoredNames == {"f1.csv", "f2.csv"}
RequestNames == StoredNames \cup {"missing.csv"}

SeqsUpTo(S, n) == UNION {[1 .. k -> S] : k \in 0 .. n}

(***************************************************************************)
(* Text files.  A text is its lines, a line its characters; pd.read_csv    *)
(* splits every line at one delimiter, names the columns after the first   *)
(* line and types every column.  The model's texts hold names of letters   *)
(* and one-digit numerals, without quotes, comments or blank lines.        *)
(***************************************************************************)
\* Line 82.
common_delimiters == <<",", ";", "TAB", "|">>

\* The characters of the model's texts, in code-point order ("TAB" is the
\* tab character).
Alphabet == <<"TAB", " ", ",", "1", "2", "3", "4", ":", ";",
              "a", "b", "d", "e", "i", "|">>

Code(ch) == CHOOSE i \in DOMAIN Alphabet : Alphabet[i] = ch

Count(line, ch) == Cardinality({i \in DOMAIN line : line[i] = ch})

RECURSIVE Join(_)
\* The string of a sequence of characters.
Join(chars) == IF chars = <<>> THEN "" ELSE Head(chars) \o Join(Tail(chars))

RECURSIVE SplitFrom(_, _, _, _)
\* line.split(sep): the fields of a line, field being the one under way.
SplitFrom(line, sep, i, field) ==
    IF i > Len(line) THEN <<field>>
    ELSE IF line[i] = sep THEN <<field>> \o SplitFrom(line, sep, i + 1, <<>>)
    ELSE SplitFrom(line, sep, i + 1, Append(field, line[i]))

Split(line, sep) == SplitFrom(line, sep, 1, <<>>)

\* csv.Sniffer.preferred.
SnifferPreferred == <<",", "TAB", ";", " ", ":">>

\* csv.Sniffer().sniff on one line, as read_csv(sep=None, engine='python')
\* calls it on the first line: every character of the line is a candidate;
\* the first preferred character among them wins, otherwise the most
\* frequent one, the highest code point among equally frequent ones.
Sniff(line) ==
    LET present == Range(line)
        preferred == {i \in DOMAIN SnifferPreferred : SnifferPreferred[i] \in present}
    IN  IF preferred # {}
        THEN SnifferPreferred[CHOOSE i \in preferred : \A j \in preferred : i <= j]
        ELSE CHOOSE c \in present :
                \A d \in present :
                    \/ Count(line, d) < Count(line, c)
                    \/ (Count(line, d) = Count(line, c) /\ Code(d) <= Code(c))

UnnamedNames == <<"Unnamed: 0", "Unnamed: 1", "Unnamed: 2", "Unnamed: 3",
                  "Unnamed: 4", "Unnamed: 5", "Unnamed: 6", "Unnamed: 7",
                  "Unnamed: 8", "Unnamed: 9", "Unnamed: 10", "Unnamed: 11">>

DuplicateSuffixes == <<".1", ".2", ".3", ".4", ".5", ".6", ".7", ".8", ".9",
                       ".10", ".11", ".12">>

\* The column names read_csv makes of the header fields: an empty field is
\* "Unnamed: <position>", a repeated name gets ".<count>" appended.
HeaderNames(fields) ==
    LET named == [i \in DOMAIN fields |->
                    IF fields[i] = <<>> THEN UnnamedNames[i] ELSE Join(fields[i])]
        earlier(i) == Cardinality({j \in 1 .. (i - 1) : named[j] = named[i]})
    IN  [i \in DOMAIN named |->
            IF earlier(i) = 0 THEN named[i]
            ELSE named[i] \o DuplicateSuffixes[earlier(i)]]

\* A field is a numeral if it is one digit.
IsNumeral(field) == Len(field) = 1 /\ \E k \in DOMAIN Digits : Digits[k] = field[1]

\* The cells of column c of the rows: a row shorter than the header has
\* missing cells, an empty field is missing; the column is numeric if
\* every field present is a numeral, otherwise its fields stay text.
ColumnOfFields(name, rows, c) ==
    LET present(r) == c <= Len(rows[r]) /\ rows[r][c] # <<>>
        numeric == /\ rows # <<>>
                   /\ \A r \in DOMAIN rows : present(r) => IsNumeral(rows[r][c])
    IN  Column(name, IF numeric THEN "num" ELSE "obj",
               [r \in DOMAIN rows |->
                  IF ~present(r) THEN NaN
                  ELSE IF numeric THEN to_numeric_cell(Str(rows[r][c][1]))
                  ELSE Str(Join(rows[r][c]))])

\* on_bad_lines='warn': a line with more fields than columns is left out.
GoodRows(lines, sep, ncols) ==
    LET fields == [i \in DOMAIN lines |-> Split(lines[i], sep)]
        good == {i \in DOMAIN lines : Len(fields[i]) <= ncols}
        nth(k) == CHOOSE i \in good : Cardinality({j \in good : j < i}) = k - 1
    IN  [k \in 1 .. Cardinality(good) |-> fields[nth(k)]]

\* pd.read_csv(filepath, sep=sep, names=names) on the data lines.
read_csv_rows(names, lines, sep) ==
    LET rows == GoodRows(lines, sep, Len(names))
    IN  Frame([c \in DOMAIN names |-> ColumnOfFields(names[c], rows, c)])

\* pd.read_csv(filepath, sep=sep): the first line is the header; a file
\* without lines raises EmptyDataError.
read_csv(lines, sep) ==
    IF lines = <<>> THEN Outcome("EmptyDataError", EmptyFrame)
    ELSE Outcome("df", read_csv_rows(HeaderNames(Split(lines[1], sep)),
                                     Tail(lines), sep))

\* Line 39: pd.read_csv(filepath, sep=None, engine='python').
read_csv_sniffed(lines) ==
    IF lines = <<>> THEN Outcome("EmptyDataError", EmptyFrame)
    ELSE read_csv(lines, Sniff(lines[1]))

RECURSIVE HeaderReparse(_, _, _)
\* Lines 46-53: the header-only single column re-read with the first common
\* delimiter that splits its name into several columns.
HeaderReparse(lines, header_str, n) ==
    IF n > Len(common_delimiters) THEN None
    ELSE LET delim_char == common_delimiters[n]
             again == read_csv(lines, delim_char)
         IN  IF Len(Split(header_str, delim_char)) > 1
                /\ again.kind = "df" /\ NCols(again.df) > 1
             THEN Some(again.df)
             ELSE HeaderReparse(lines, header_str, n + 1)

RECURSIVE Strategy2(_, _, _)
\* Lines 62-75: the common delimiters in turn; the first table of several
\* columns is returned, otherwise the best single-column one.
Strategy2(lines, current_best_df, n) ==
    IF n > Len(common_delimiters) THEN current_best_df
    ELSE LET df_try == read_csv(lines, common_delimiters[n])
         IN  IF df_try.kind # "df"
             THEN Strategy2(lines, current_best_df, n + 1)
             ELSE IF NCols(df_try.df) > 1 THEN Some(df_try.df)
             ELSE IF current_best_df.is_none
             THEN Strategy2(lines, Some(df_try.df), n + 1)
             ELSE IF NCols(current_best_df.df) = 1 /\ NRows(current_best_df.df) = 0
                     /\ NRows(df_try.df) > 0
             THEN Strategy2(lines, Some(df_try.df), n + 1)
             ELSE Strategy2(lines, current_best_df, n + 1)

\* Lines 30-75 on a text every encoding decodes alike: a table or None
\* (read_csv's EmptyDataError is swallowed by lines 58-59 and 73-74).
try_parse_csv_with_encoding(lines) ==
    LET df_attempt == read_csv_sniffed(lines)
        reparsed ==
            IF df_attempt.kind = "df" /\ NRows(df_attempt.df) = 0
               /\ NCols(df_attempt.df) = 1
            THEN HeaderReparse(lines, lines[1], 1)
            ELSE None
        df_candidate == IF df_attempt.kind = "df" THEN Some(df_attempt.df) ELSE None
        final == IF df_attempt.kind = "df" /\ NCols(df_attempt.df) > 1
                 THEN df_candidate
                 ELSE IF ~reparsed.is_none THEN reparsed
                 ELSE Strategy2(lines, df_candidate, 1)
    IN  IF final.is_none THEN Outcome("None", EmptyFrame)
        ELSE Outcome("df", final.df)

RECURSIVE Strip(_)
\* line.strip(): white space taken off both ends.
Strip(line) ==
    IF line = <<>> THEN line
    ELSE IF Head(line) \in {" ", "TAB"} THEN Strip(Tail(line))
    ELSE IF line[Len(line)] \in {" ", "TAB"} THEN Strip(SubSeq(line, 1, Len(line) - 1))
    ELSE line

\* Lines 6-16 and 135-136: some common delimiter occurs in the first five
\* lines.
SampleHasDelimiter(lines) ==
    \E i \in DOMAIN lines :
        /\ i <= 5
        /\ \E d \in Range(common_delimiters) : d \in Range(Strip(lines[i]))

\* Line 144: every line a row of the one column 'data'.
single_col_df(lines) ==
    Frame(<<ColumnOfFields("data", [i \in DOMAIN lines |-> <<lines[i]>>], 1)>>)

\* A stored text file: the parse of every encoding, the sample and the
\* single-column re-parse are those of its lines.
TextStoredFile(lines) ==
    [bytes |-> <<Run("text", Len(lines))>>, readable |-> TRUE,
     parse |-> [e \in {Encodings[i] : i \in DOMAIN Encodings} |->
                   try_parse_csv_with_encoding(lines)],
     sample_has_delimiter |-> SampleHasDelimiter(lines),
     single_column_ok |-> lines # <<>>,
     single_column |-> single_col_df(lines),
     lines |-> lines]

(***************************************************************************)
(* The delimited texts the model draws from: one logical table written     *)
(* with each of the four delimiters.                                       *)
(***************************************************************************)
\* Column names, as characters.
LogicalNames == {<<"a">>, <<"b">>, <<"i", "d">>, <<"e", "e">>}

\* Two or three different column names.
ColumnLists ==
    {c \in [1 .. 2 -> LogicalNames] : c[1] # c[2]}
    \cup {c \in [1 .. 3 -> LogicalNames] :
            c[1] = <<"i", "d">> /\ c[2] # c[1] /\ c[3] # c[1] /\ c[2] # c[3]}

\* A logical table: column names and rows of one-digit numerals; the first
\* cell of the first row varies, the other cells are "1".
LogicalTables ==
    {[names |-> c, rows |-> <<>>] : c \in ColumnLists}
    \cup {[names |-> c,
           rows |-> [r \in 1 .. n |->
                       [x \in DOMAIN c |->
                          IF r = 1 /\ x = 1 THEN Digits[k] ELSE Digits[1]]]]
            : c \in ColumnLists, n \in 1 .. MaxRows, k \in 1 .. MaxKey}

RECURSIVE JoinFields(_, _)
\* sep.join(fields)
JoinFields(fields, sep) ==
    IF Len(fields) = 1 THEN fields[1]
    ELSE fields[1] \o <<sep>> \o JoinFields(Tail(fields), sep)

\* The text of a logical table under a delimiter: the header line, then one
\* line per row.
Serialize(table, sep) ==
    <<JoinFields(table.names, sep)>>
    \o [r \in DOMAIN table.rows |->
          JoinFields([x \in DOMAIN table.rows[r] |-> <<table.rows[r][x]>>], sep)]

\* The in-memory table of a logical table: integer columns, or columns
\* without cells (dtype object) when there are no rows.
ExpectedFrame(table) ==
    Frame([x \in DOMAIN table.names |->
             Column(Join(table.names[x]),
                    IF table.rows = <<>> THEN "obj" ELSE "num",
                    [r \in DOMAIN table.rows |->
                       to_numeric_cell(Str(table.rows[r][x]))])])

\* The file a logical table is stored in under each delimiter.
DelimiterOf ==
    [n \in {"comma.csv", "semi.csv", "tab.csv", "pipe.csv"} |->
        CASE n = "comma.csv" -> ","
          [] n = "semi.csv" -> ";"
          [] n = "tab.csv" -> "TAB"
          [] n = "pipe.csv" -> "|"]

\* The stored names: the four delimited files and an empty file.
ParseNames == DOMAIN DelimiterOf \cup {"empty.csv"}

DelimitedFolder(table) ==
    [n \in ParseNames |->
        IF n = "empty.csv" THEN TextStoredFile(<<>>)
        ELSE TextStoredFile(Serialize(table, DelimiterOf[n]))]

(***************************************************************************)
(* generate_excel_output: the artifact (lines 335-337 and 351-409).        *)
(***************************************************************************)
\* app.py line 179.
output_filename_base == "comparison_report"

\* Lines 335-336: base, "_", the time to the second, ".xlsx".
unique_filename(base, t) == <<base, t>>

\* The characters of the file names of the model.
FileNameChars ==
    [n \in {"f1.csv", "f2.csv", "f3.csv", "a.b", "a_b", "a-b", "Summary",
            "aaaaaaaaaaaaaaaaaaaaaaaaaaabcdef", "aaaaaaaaaaaaaaaaaaaaaaaaaaavwxyz"} |->
        CASE n = "f1.csv" -> <<"f", "1", ".", "c", "s", "v">>
          [] n = "f2.csv" -> <<"f", "2", ".", "c", "s", "v">>
          [] n = "f3.csv" -> <<"f", "3", ".", "c", "s", "v">>
          [] n = "a.b" -> <<"a", ".", "b">>
          [] n = "a_b" -> <<"a", "_", "b">>
          [] n = "a-b" -> <<"a", "-", "b">>
          [] n = "Summary" -> <<"S", "u", "m", "m", "a", "r", "y">>
          [] n = "aaaaaaaaaaaaaaaaaaaaaaaaaaabcdef" ->
                [i \in 1 .. 27 |-> "a"] \o <<"b", "c", "d", "e", "f">>
          [] n = "aaaaaaaaaaaaaaaaaaaaaaaaaaavwxyz" ->
                [i \in 1 .. 27 |-> "a"] \o <<"v", "w", "x", "y", "z">>]

\* c.isalnum() on the characters of those names.
isalnum(c) == c \notin {".", "_", "-", " "}

\* Lines 394-396.
safe_sheet_name(original_filename) ==
    LET name == FileNameChars[original_filename]
        safe == [i \in DOMAIN name |-> IF isalnum(name[i]) THEN name[i] ELSE "_"]
    IN  IF Len(safe) > 31
        THEN Join(SubSeq(safe, 1, 27) \o <<"_", "e", "t", "c">>)
        ELSE Join(safe)

\* to_excel(writer, sheet_name=...): a sheet of a new name is created, a
\* sheet of a name the workbook has is written over.  A sheet is the list
\* of what was written to it.
to_excel(book, sheet_name, source) ==
    IF sheet_name \in DOMAIN book
    THEN [book EXCEPT ![sheet_name] = Append(@, source)]
    ELSE (sheet_name :> <<source>>) @@ book

RECURSIVE WriteTables(_, _, _)
\* Lines 390-409: the tables from the n-th on, each to the sheet of its name.
WriteTables(book, validated, n) ==
    IF n > Len(validated) THEN book
    ELSE WriteTables(
             to_excel(book, safe_sheet_name(validated[n].filename),
                      [table |-> n, filename |-> validated[n].filename]),
             validated, n + 1)

\* Lines 351-409: the summary sheet, then the tables.
Workbook(validated) ==
    WriteTables(to_excel([k \in {} |-> <<>>], "Summary",
                         [table |-> 0, filename |-> "Summary"]),
                validated, 1)

\* Line 374 counting the distinct key values of the flagged rows.
highlight_count_DistinctKeys(df_data, opcol, highlight_map) ==
    LET df == df_data.dataframe IN
    IF HasColumn(df, opcol)
    THEN <<Cardinality({df.data[opcol][r].n : r \in
                {x \in 1 .. NRows(df) :
                    /\ ~isna(df.data[opcol][x])
                    /\ <<df_data.filename, df.data[opcol][x].n>> \in highlight_map}})>>
    ELSE <<>>

\* Lines 373-377: the number of rows of a table whose (file name, key
\* value) is in the highlight set, as <<count>>; <<>> stands for the text
\* "(op_col missing)".
highlight_count(df_data, opcol, highlight_map) ==
    LET df == df_data.dataframe IN
    IF HasColumn(df, opcol)
    THEN <<Cardinality({r \in 1 .. NRows(df) :
                /\ ~isna(df.data[opcol][r])
                /\ <<df_data.filename, df.data[opcol][r].n>> \in highlight_map})>>
    ELSE <<>>

\* Lines 369-379: one "name: count" entry per validated table, in order.
highlight_counts_summary(validated, opcol, highlight_map) ==
    [i \in DOMAIN validated |->
        [filename |-> validated[i].filename,
         count |-> highlight_count(validated[i], opcol, highlight_map)]]

\* Lines 352-379: the values of the Summary sheet.
summary_data(validated, results, opcol, threshold, highlight_map) ==
    [input_files |-> [i \in DOMAIN validated |-> validated[i].filename],
     operation_column |-> opcol,
     threshold_value |-> threshold,
     highlighted |-> highlight_counts_summary(validated, opcol, highlight_map),
     compared_columns |-> {k[1] : k \in DOMAIN results}]

\* Line 351: the file at the path is created or written over; the artifact
\* records how many times its path was written and the values of its
\* Summary sheet.
WriteArtifact(folder, path, book, summary) ==
    (path :> [sheets |-> book,
              summary |-> summary,
              written |-> IF path \in DOMAIN folder THEN folder[path].written + 1
                          ELSE 1])
    @@ folder

(***************************************************************************)
(* The service state before a request.                                     *)
(***************************************************************************)
Null == <<>>

NoResponse ==
    [sent |-> FALSE, status |-> "", http |-> 0, errors |-> <<>>,
     warnings |-> <<>>, excel_report_filename |-> Null,
     comparison_summary |-> [k \in {} |-> 0], validated_files_summary |-> <<>>]

\* No download request, no thread.
NoDownload == [pc |-> "none"]
NoWorkers == <<>>

ServiceInit ==
    /\ now = 0
    /\ processed_folder = [p \in {} |-> <<>>]
    /\ excel_outcome = "none"
    /\ response = NoResponse
    /\ di = 1
    /\ cleanup_log = <<>>
    /\ download = NoDownload
    /\ workers = NoWorkers

(***************************************************************************)
(* The pipeline: validate, compare, derive the highlight set.              *)
(***************************************************************************)
NoResults == [k \in {} |-> <<>>]

readVars == <<upload_folder, relative_file_paths, ri, errors_data, parse_attempts>>

InitWith(items) ==
    /\ pc = "validate"
    /\ upload_folder = <<>>
    /\ relative_file_paths = <<>>
    /\ ri = 1
    /\ errors_data = <<>>
    /\ parse_attempts = <<>>
    /\ operation_column = "id"
    /\ dataframes_data = items
    /\ vi = 1
    /\ validated_dfs = <<>>
    /\ validation_errors = <<>>
    /\ ci = 0
    /\ comparison_results = NoResults
    /\ comparison_warnings = <<>>
    /\ threshold_value = 0
    /\ rows_to_highlight_map = {}
    /\ ServiceInit

\* The requests: no table, one or two tables varying in the key column (of
\* two, one has at most one row), two tables varying in the data, three
\* tables of the smaller family under every list of names.
Init ==
    \E names \in FileNameLists :
        \/ \E n \in 0 .. 2 : \E frames \in [1 .. n -> KeyRichTables] :
              /\ names = <<"f1.csv", "f2.csv", "f3.csv">>
              /\ \E i \in 1 .. 2 : i <= n => NRows(frames[i]) <= 1
              /\ InitWith(Items(names, frames))
        \/ \E frames \in [1 .. 2 -> DataRichTables] :
              /\ names = <<"f1.csv", "f2.csv", "f3.csv">>
              /\ InitWith(Items(names, frames))
        \/ \E frames \in [1 .. 3 -> CompactTables] :
              InitWith(Items(names, frames))

\* Lines 167-220: one iteration of the validation loop.
ValidateItem ==
    /\ pc = "validate"
    /\ vi <= Len(dataframes_data)
    /\ LET r == ValidateItemResult(dataframes_data[vi], operation_column)
       IN  IF r.ok
           THEN /\ validated_dfs' = Append(validated_dfs,
                        [filename |-> r.filename, dataframe |-> r.dataframe,
                         numeric_columns |-> r.numeric_columns])
                /\ UNCHANGED validation_errors
           ELSE /\ validation_errors' = Append(validation_errors,
                        [filename |-> r.filename, error |-> r.error])
                /\ UNCHANGED validated_dfs
    /\ vi' = vi + 1
    /\ UNCHANGED serviceVars
    /\ UNCHANGED readVars
    /\ UNCHANGED <<pc, operation_column, dataframes_data, ci, comparison_results,
                   comparison_warnings, threshold_value, rows_to_highlight_map>>

\* Line 222: validation returns; the caller goes on to the comparison.
ValidateReturn ==
    /\ pc = "validate"
    /\ vi > Len(dataframes_data)
    /\ pc' = "compare"
    /\ UNCHANGED serviceVars
    /\ UNCHANGED readVars
    /\ UNCHANGED <<operation_column, dataframes_data, vi, validated_dfs,
                   validation_errors, ci, comparison_results, comparison_warnings,
                   threshold_value, rows_to_highlight_map>>

\* Line 229 with "< 1": a single table is let through to the loop.
TooFewTables_OffByOne(validated) == Len(validated) < 1

\* Line 229.
TooFewTables(validated) == Len(validated) < 2

\* Line 247 starting at the reference itself (range(0, ...)).
FirstOther_FromReference == 2 - 1

\* Line 247: range(1, len(...)) starts at the second table.
FirstOther == 2

\* Lines 226-245: fewer than two tables return a setup warning at once;
\* otherwise the first table becomes the reference.
CompareSetup ==
    /\ pc = "compare"
    /\ IF TooFewTables(validated_dfs)
       THEN /\ comparison_warnings' =
                  Append(comparison_warnings, Warning("SetupWarning", "", "", ""))
            /\ pc' = "report"
            /\ UNCHANGED ci
       ELSE /\ comparison_warnings' =
                  IF validated_dfs[1].numeric_columns = <<>>
                  THEN Append(comparison_warnings,
                              Warning("DataWarning", "", validated_dfs[1].filename, ""))
                  ELSE comparison_warnings
            /\ pc' = "compare_loop"
            /\ ci' = FirstOther
    /\ UNCHANGED serviceVars
    /\ UNCHANGED readVars
    /\ UNCHANGED <<operation_column, dataframes_data, vi, validated_dfs,
                   validation_errors, comparison_results, threshold_value,
                   rows_to_highlight_map>>

\* Lines 247-321: one iteration of the loop over the other tables.
ComparePair ==
    /\ pc = "compare_loop"
    /\ ci <= Len(validated_dfs)
    /\ LET acc == ComparePairResult(
                      [results |-> comparison_results,
                       warnings |-> comparison_warnings],
                      validated_dfs[1], validated_dfs[ci], operation_column)
       IN  /\ comparison_results' = acc.results
           /\ comparison_warnings' = acc.warnings
    /\ ci' = ci + 1
    /\ UNCHANGED serviceVars
    /\ UNCHANGED readVars
    /\ UNCHANGED <<pc, operation_column, dataframes_data, vi, validated_dfs,
                   validation_errors, threshold_value, rows_to_highlight_map>>

\* Line 323.
CompareReturn ==
    /\ pc = "compare_loop"
    /\ ci > Len(validated_dfs)
    /\ pc' = "report"
    /\ UNCHANGED serviceVars
    /\ UNCHANGED readVars
    /\ UNCHANGED <<operation_column, dataframes_data, vi, validated_dfs,
                   validation_errors, ci, comparison_results, comparison_warnings,
                   threshold_value, rows_to_highlight_map>>

\* Lines 326-411, for a threshold of the request: the highlight set is
\* derived and the workbook written under the name of the current second.
GenerateExcelOutput ==
    /\ pc = "report"
    /\ \E t \in Thresholds :
          /\ threshold_value' = t
          /\ rows_to_highlight_map' = HighlightMap(comparison_results, t)
    /\ processed_folder' =
          WriteArtifact(processed_folder, unique_filename(output_filename_base, now),
                        Workbook(validated_dfs),
                        summary_data(validated_dfs, comparison_results,
                                     operation_column, threshold_value',
                                     rows_to_highlight_map'))
    /\ pc' = "done"
    /\ UNCHANGED <<now, excel_outcome, response, di, cleanup_log>>
    /\ UNCHANGED readVars
    /\ UNCHANGED <<operation_column, dataframes_data, vi, validated_dfs,
                   validation_errors, ci, comparison_results, comparison_warnings>>
    /\ UNCHANGED handlerVars

Next ==
    \/ ValidateItem
    \/ ValidateReturn
    \/ CompareSetup
    \/ ComparePair
    \/ CompareReturn
    \/ GenerateExcelOutput

Spec == Init /\ [][Next]_vars

(***************************************************************************)
(* read_csv_files as a process of its own.                                 *)
(***************************************************************************)
pipelineVars == <<operation_column, vi, validated_dfs, validation_errors, ci,
                  comparison_results, comparison_warnings, threshold_value,
                  rows_to_highlight_map>>

InitRead ==
    /\ pc = "read"
    /\ \/ /\ upload_folder \in [StoredNames -> ByteFiles]
          /\ relative_file_paths \in SeqsUpTo(RequestNames, MaxFiles)
       \/ /\ upload_folder \in [{"f1.csv"} -> TextFiles]
          /\ relative_file_paths \in SeqsUpTo({"f1.csv", "missing.csv"}, 2)
    /\ ri = 1
    /\ errors_data = <<>>
    /\ parse_attempts = <<>>
    /\ dataframes_data = <<>>
    /\ operation_column = "id"
    /\ vi = 1
    /\ validated_dfs = <<>>
    /\ validation_errors = <<>>
    /\ ci = 0
    /\ comparison_results = NoResults
    /\ comparison_warnings = <<>>
    /\ threshold_value = 0
    /\ rows_to_highlight_map = {}
    /\ ServiceInit

\* Lines 85-158: one iteration of the loop over the requested files.
ReadFile ==
    /\ pc = "read"
    /\ ri <= Len(relative_file_paths)
    /\ LET filename == relative_file_paths[ri]
           r == ReadFileResult(upload_folder, filename)
       IN  /\ parse_attempts' = parse_attempts \o
                  [j \in DOMAIN r.attempts |->
                      [filename |-> filename, attempt |-> r.attempts[j]]]
           /\ IF r.ok
              THEN /\ dataframes_data' = Append(dataframes_data,
                          [filename |-> filename, dataframe |-> r.df])
                   /\ UNCHANGED errors_data
              ELSE /\ errors_data' = Append(errors_data,
                          [filename |-> filename, error |-> r.error])
                   /\ UNCHANGED dataframes_data
    /\ ri' = ri + 1
    /\ UNCHANGED <<pc, upload_folder, relative_file_paths>>
    /\ UNCHANGED serviceVars
    /\ UNCHANGED pipelineVars

\* Line 160.
ReadReturn ==
    /\ pc = "read"
    /\ ri > Len(relative_file_paths)
    /\ pc' = "parsed"
    /\ UNCHANGED <<upload_folder, relative_file_paths, ri, errors_data,
                   parse_attempts, dataframes_data>>
    /\ UNCHANGED serviceVars
    /\ UNCHANGED pipelineVars

NextRead ==
    \/ ReadFile
    \/ ReadReturn

SpecRead == InitRead /\ [][NextRead]_vars

(***************************************************************************)
(* Reports: the pipeline run for one request after another on the same     *)
(* report directory, while the clock advances.                             *)
(***************************************************************************)
MaxClock == 1        \* the clock runs from second 0 to second MaxClock
MaxReports == 2      \* at most MaxReports reports are written

\* The validated file names of a request: plain names, names that differ
\* in a non-alphanumeric character only, names of 32 characters with the
\* same first 27, and the name "Summary".
ReportNameLists ==
    {<<"f1.csv", "f2.csv">>,
     <<"f1.csv", "f2.csv", "f3.csv">>,
     <<"a.b", "a_b">>,
     <<"a.b", "a-b", "f1.csv">>,
     <<"a.b", "f1.csv">>,
     <<"aaaaaaaaaaaaaaaaaaaaaaaaaaabcdef", "aaaaaaaaaaaaaaaaaaaaaaaaaaavwxyz">>,
     <<"aaaaaaaaaaaaaaaaaaaaaaaaaaabcdef", "f1.csv">>,
     <<"Summary", "f1.csv">>}

\* Tables that pass validation: keys 1..n, one data column.
ReportTables ==
    {Frame(<<Column("id", "num", [i \in 1 .. n |-> Num(i)]),
             Column("v", "num", [i \in 1 .. n |-> Num(x)])>>)
        : n \in 1 .. MaxRows, x \in {0, MaxVal}}

InitReport ==
    \E names \in ReportNameLists : \E reference \in ReportTables :
        InitWith(Items(names, [i \in DOMAIN names |->
                                  IF i = 1 THEN reference
                                  ELSE CHOOSE t \in ReportTables :
                                          NRows(t) = 1 /\ t.data["v"][1] = Num(0)]))

\* Line 335, datetime.now(): a second passes.
Tick ==
    /\ now < MaxClock
    /\ now' = now + 1
    /\ UNCHANGED <<pc, processed_folder, excel_outcome, response, di, cleanup_log>>
    /\ UNCHANGED readVars
    /\ UNCHANGED <<operation_column, dataframes_data, vi, validated_dfs,
                   validation_errors, ci, comparison_results, comparison_warnings,
                   threshold_value, rows_to_highlight_map>>
    /\ UNCHANGED handlerVars

ReportsWritten ==
    LET paths == DOMAIN processed_folder
        RECURSIVE Sum(_)
        Sum(S) == IF S = {} THEN 0
                  ELSE LET x == CHOOSE y \in S : TRUE
                       IN  processed_folder[x].written + Sum(S \ {x})
    IN  Sum(paths)

\* The service takes the next request for the same tables: the pipeline
\* starts again, the report directory and the clock stay as they are.
AnotherRequest ==
    /\ pc = "done"
    /\ ReportsWritten < MaxReports
    /\ pc' = "validate"
    /\ vi' = 1
    /\ validated_dfs' = <<>>
    /\ validation_errors' = <<>>
    /\ ci' = 0
    /\ comparison_results' = NoResults
    /\ comparison_warnings' = <<>>
    /\ threshold_value' = 0
    /\ rows_to_highlight_map' = {}
    /\ UNCHANGED <<operation_column, dataframes_data>>
    /\ UNCHANGED serviceVars
    /\ UNCHANGED readVars

NextReport ==
    \/ Next
    \/ Tick
    \/ AnotherRequest

SpecReport == InitReport /\ [][NextReport]_vars

(***************************************************************************)
(* process_files (app.py lines 68-251): read, validate, compare, report,   *)
(* respond, clean up.                                                      *)
(***************************************************************************)
\* Line 105.
AllFilesFailedReading(parsed, all_errors) == parsed = <<>> /\ all_errors # <<>>

\* Line 120 failing the request on any error.
NoTableSurvived_OrAnyError(validated, all_errors) ==
    validated = <<>> \/ all_errors # <<>>

\* Line 120.
NoTableSurvived(validated, all_errors) == validated = <<>>

\* Lines 106-112 and 121-128.
FailedResponse(all_errors) ==
    [sent |-> TRUE, status |-> "failed", http |-> 422, errors |-> all_errors,
     warnings |-> <<>>, excel_report_filename |-> Null,
     comparison_summary |-> [k \in {} |-> 0], validated_files_summary |-> <<>>]

\* Lines 136-161: per series, the number of rows compared.
ComparisonSummary(results) == [k \in DOMAIN results |-> Len(results[k])]

\* Lines 205-212.
ValidatedFilesSummary(validated) ==
    [i \in DOMAIN validated |-> validated[i].filename]

\* Lines 189-195 swallowing the error.
OnExcelError_Silent(warnings) == warnings

\* Lines 189-195: the error becomes one more warning.
OnExcelError(warnings) ==
    Append(warnings, Warning("ExcelGenerationError", "", "", ""))

\* Lines 200-202.
FinalStatus(all_errors, warnings) ==
    IF all_errors # <<>> \/ warnings # <<>>
    THEN "partial_success_with_issues" ELSE "success"

\* Lines 227-231.
HttpStatus(all_errors) == IF all_errors # <<>> THEN 207 ELSE 200

\* Lines 214-225.
ResponsePayload(all_errors, warnings, validated, results, filename) ==
    [sent |-> TRUE, status |-> FinalStatus(all_errors, warnings),
     http |-> HttpStatus(all_errors), errors |-> all_errors,
     warnings |-> warnings, excel_report_filename |-> filename,
     comparison_summary |-> ComparisonSummary(results),
     validated_files_summary |-> ValidatedFilesSummary(validated)]

\* A stored file every encoding parses to the table df.
ProcessFileOf(df) ==
    StoredFile(<<Run("text", 10)>>, TRUE,
               [e \in EncodingSet |-> Outcome("df", df)], TRUE, TRUE)

\* The uploads of a request: tables of one row that pass validation, one
\* of them with a second data column, a table without the key column, a
\* binary file, a text no encoding parses.
ProcessFiles ==
    {ProcessFileOf(Frame(<<Column("id", "num", <<Num(k)>>),
                           Column("v", "num", <<Num(x)>>)>>))
        : k \in 1 .. MaxKey, x \in {0, MaxVal}}
    \cup {ProcessFileOf(Frame(<<Column("id", "num", <<Num(1)>>),
                                 Column("v", "num", <<Num(0)>>),
                                 Column("w", "num", <<Num(0)>>)>>)),
          ProcessFileOf(Frame(<<Column("v", "num", <<Num(0)>>)>>)),
          StoredFile(<<Run("nul", 1)>>, TRUE,
                     [e \in EncodingSet |-> Outcome("None", EmptyFrame)], TRUE, TRUE),
          StoredFile(<<Run("text", 10)>>, TRUE,
                     [e \in EncodingSet |-> Outcome("None", EmptyFrame)], TRUE, TRUE)}

\* A request names one or more uploads, after a name that is not stored
\* or not; the threshold of the request is 0.
InitProcess ==
    /\ pc = "read"
    /\ \E n \in 1 .. (MaxFiles - 1) : \E files \in [1 .. n -> ProcessFiles] :
       \E missing \in BOOLEAN :
          LET names == <<"f1.csv", "f2.csv", "f3.csv">> IN
          /\ upload_folder = [f \in {names[i] : i \in 1 .. n} |->
                                files[CHOOSE i \in 1 .. n : names[i] = f]]
          /\ relative_file_paths =
                (IF missing THEN <<"missing.csv">> ELSE <<>>) \o SubSeq(names, 1, n)
    /\ ri = 1
    /\ errors_data = <<>>
    /\ parse_attempts = <<>>
    /\ dataframes_data = <<>>
    /\ operation_column = "id"
    /\ vi = 1
    /\ validated_dfs = <<>>
    /\ validation_errors = <<>>
    /\ ci = 0
    /\ comparison_results = NoResults
    /\ comparison_warnings = <<>>
    /\ threshold_value = 0
    /\ rows_to_highlight_map = {}
    /\ ServiceInit

processVars == <<upload_folder, relative_file_paths, ri, errors_data,
                 parse_attempts, operation_column, dataframes_data, vi,
                 validated_dfs, validation_errors, ci, comparison_results,
                 threshold_value>>

\* Lines 91-112: every file failed reading: the request fails at once.
ProcessRead ==
    /\ pc = "parsed"
    /\ IF AllFilesFailedReading(dataframes_data, errors_data)
       THEN /\ response' = FailedResponse(errors_data)
            /\ pc' = "returned"
       ELSE /\ pc' = "validate"
            /\ UNCHANGED response
    /\ UNCHANGED <<comparison_warnings, rows_to_highlight_map, now,
                   processed_folder, excel_outcome, di, cleanup_log>>
    /\ UNCHANGED processVars
    /\ UNCHANGED handlerVars

\* Lines 115-128: no table passed validation: the request fails.
ProcessValidated ==
    /\ pc = "compare"
    /\ NoTableSurvived(validated_dfs, errors_data \o validation_errors)
    /\ response' = FailedResponse(errors_data \o validation_errors)
    /\ pc' = "returned"
    /\ UNCHANGED <<comparison_warnings, rows_to_highlight_map, now,
                   processed_folder, excel_outcome, di, cleanup_log>>
    /\ UNCHANGED processVars
    /\ UNCHANGED handlerVars

\* Lines 120 and 131: otherwise the comparison is called.
ProcessCompare ==
    /\ ~NoTableSurvived(validated_dfs, errors_data \o validation_errors)
    /\ CompareSetup

\* Lines 164-231: the report is generated if there is a series; an error
\* of the generation becomes a warning; the payload is put together.
ProcessReport ==
    /\ pc = "report"
    /\ \E raised \in BOOLEAN :
         LET all_errors == errors_data \o validation_errors
             path == unique_filename(output_filename_base, now)
         IN  IF validated_dfs # <<>> /\ comparison_results # NoResults
             THEN IF raised
                  THEN /\ excel_outcome' = "raised"
                       /\ comparison_warnings' = OnExcelError(comparison_warnings)
                       /\ response' = ResponsePayload(all_errors,
                              comparison_warnings', validated_dfs,
                              comparison_results, Null)
                       /\ UNCHANGED <<rows_to_highlight_map, processed_folder>>
                  ELSE /\ excel_outcome' = "written"
                       /\ rows_to_highlight_map' =
                              HighlightMap(comparison_results, threshold_value)
                       /\ processed_folder' =
                              WriteArtifact(processed_folder, path,
                                  Workbook(validated_dfs),
                                  summary_data(validated_dfs, comparison_results,
                                      operation_column, threshold_value,
                                      rows_to_highlight_map'))
                       /\ response' = ResponsePayload(all_errors,
                              comparison_warnings, validated_dfs,
                              comparison_results, path)
                       /\ UNCHANGED comparison_warnings
             ELSE /\ ~raised
                  /\ excel_outcome' = "skipped"
                  /\ response' = ResponsePayload(all_errors, comparison_warnings,
                         validated_dfs, comparison_results, Null)
                  /\ UNCHANGED <<comparison_warnings, rows_to_highlight_map,
                                 processed_folder>>
    /\ pc' = "cleanup"
    /\ di' = 1
    /\ UNCHANGED <<now, cleanup_log>>
    /\ UNCHANGED processVars
    /\ UNCHANGED handlerVars

\* Lines 236-249: one iteration of the cleanup loop: the upload is removed
\* if it is there; a failing removal is printed.
ProcessCleanupFile ==
    /\ pc = "cleanup"
    /\ di <= Len(relative_file_paths)
    /\ LET uploaded_filename == relative_file_paths[di] IN
       IF uploaded_filename \in DOMAIN upload_folder
       THEN \E fails \in BOOLEAN :
               IF fails
               THEN /\ cleanup_log' = Append(cleanup_log, uploaded_filename)
                    /\ UNCHANGED upload_folder
               ELSE /\ upload_folder' =
                          [f \in DOMAIN upload_folder \ {uploaded_filename} |->
                              upload_folder[f]]
                    /\ UNCHANGED cleanup_log
       ELSE UNCHANGED <<upload_folder, cleanup_log>>
    /\ di' = di + 1
    /\ UNCHANGED <<pc, relative_file_paths, ri, errors_data, parse_attempts,
                   operation_column, dataframes_data, vi, validated_dfs,
                   validation_errors, ci, comparison_results, comparison_warnings,
                   threshold_value, rows_to_highlight_map, now, processed_folder,
                   excel_outcome, response>>
    /\ UNCHANGED handlerVars

\* Line 251.
ProcessReturn ==
    /\ pc = "cleanup"
    /\ di > Len(relative_file_paths)
    /\ pc' = "returned"
    /\ UNCHANGED <<comparison_warnings, rows_to_highlight_map, now,
                   processed_folder, excel_outcome, response, di, cleanup_log>>
    /\ UNCHANGED processVars
    /\ UNCHANGED handlerVars

NextProcess ==
    \/ ReadFile
    \/ ReadReturn
    \/ ProcessRead
    \/ ValidateItem
    \/ ValidateReturn
    \/ ProcessValidated
    \/ ProcessCompare
    \/ ComparePair
    \/ CompareReturn
    \/ ProcessReport
    \/ ProcessCleanupFile
    \/ ProcessReturn

SpecProcess == InitProcess /\ [][NextProcess]_vars

(***************************************************************************)
(* read_csv_files on delimited texts.                                      *)
(***************************************************************************)
InitParse ==
    /\ pc = "read"
    /\ \E table \in LogicalTables : upload_folder = DelimitedFolder(table)
    /\ relative_file_paths \in SeqsUpTo(ParseNames, MaxFiles)
    /\ ri = 1
    /\ errors_data = <<>>
    /\ parse_attempts = <<>>
    /\ dataframes_data = <<>>
    /\ operation_column = "id"
    /\ vi = 1
    /\ validated_dfs = <<>>
    /\ validation_errors = <<>>
    /\ ci = 0
    /\ comparison_results = NoResults
    /\ comparison_warnings = <<>>
    /\ threshold_value = 0
    /\ rows_to_highlight_map = {}
    /\ ServiceInit

SpecParse == InitParse /\ [][NextRead]_vars

(***************************************************************************)
(* read_csv_files on texts that hold none of the four delimiters: every    *)
(* line is words with at most one space.                                   *)
(***************************************************************************)
PlainLines == {<<"a", " ", "b">>, <<"1", " ", "2">>, <<"a", "b">>, <<"e">>}

\* Texts of one line (a header only) to MaxRows + 1 lines.
PlainTexts == UNION {[1 .. n -> PlainLines] : n \in 1 .. (MaxRows + 1)}

PlainRequestNames == {"plain.txt", "comma.csv", "missing.csv"}

\* The folder holds a plain text and a comma-separated table.
PlainFolder(lines) ==
    [n \in {"plain.txt", "comma.csv"} |->
        IF n = "plain.txt" THEN TextStoredFile(lines)
        ELSE TextStoredFile(<<<<"i", "d", ",", "a">>, <<"1", ",", "2">>>>)]

InitPlain ==
    /\ pc = "read"
    /\ \E lines \in PlainTexts : upload_folder = PlainFolder(lines)
    /\ relative_file_paths \in SeqsUpTo(PlainRequestNames, MaxFiles)
    /\ ri = 1
    /\ errors_data = <<>>
    /\ parse_attempts = <<>>
    /\ dataframes_data = <<>>
    /\ operation_column = "id"
    /\ vi = 1
    /\ validated_dfs = <<>>
    /\ validation_errors = <<>>
    /\ ci = 0
    /\ comparison_results = NoResults
    /\ comparison_warnings = <<>>
    /\ threshold_value = 0
    /\ rows_to_highlight_map = {}
    /\ ServiceInit

SpecPlain == InitPlain /\ [][NextRead]_vars

(***************************************************************************)
(* download_file (app.py lines 254-278).  A requested name is its          *)
(* characters: a stem of letters, dots, slashes and backslashes, and an    *)
(* extension or none.                                                      *)
(***************************************************************************)
MaxStem == 3         \* the stem of a requested name has at most MaxStem characters

NameChars == {"r", ".", "/", "\\"}

xlsx == <<".", "x", "l", "s", "x">>

Extensions == {<<>>, xlsx, <<".", "x", "l", "s">>, <<".", "c", "s", "v">>}

DownloadNames ==
    {stem \o ext : stem \in SeqsUpTo(NameChars, MaxStem), ext \in Extensions}

\* The files on disk, by the name that reaches them from the report
\* directory: a report, a report of the parent directory, a file whose
\* name starts with a backslash, an upload.
DiskFiles ==
    {<<"r">> \o xlsx,
     <<".", ".", "/", "r">> \o xlsx,
     <<"\\", "r">> \o xlsx,
     <<"r", ".", "c", "s", "v">>}

\* str.startswith, str.endswith, the operator "in" on strings.
startswith(str, prefix) ==
    Len(str) >= Len(prefix) /\ SubSeq(str, 1, Len(prefix)) = prefix

endswith(str, suffix) ==
    Len(str) >= Len(suffix)
    /\ SubSeq(str, Len(str) - Len(suffix) + 1, Len(str)) = suffix

contains(str, sub) ==
    \E i \in 1 .. (Len(str) - Len(sub) + 1) :
        SubSeq(str, i, i + Len(sub) - 1) = sub

\* Lines 257-260 without the check of line 260.
IsUnpermitted_NoBackslash(filename) ==
    \/ ~endswith(filename, xlsx)
    \/ contains(filename, <<".", ".">>)
    \/ startswith(filename, <<"/">>)

\* Lines 257-260.
IsUnpermitted(filename) ==
    \/ ~endswith(filename, xlsx)
    \/ contains(filename, <<".", ".">>)
    \/ startswith(filename, <<"/">>)
    \/ startswith(filename, <<"\\">>)

\* The library and the process request are idle.
IdlePipeline ==
    /\ pc = "idle"
    /\ relative_file_paths = <<>>
    /\ ri = 1
    /\ errors_data = <<>>
    /\ parse_attempts = <<>>
    /\ dataframes_data = <<>>
    /\ operation_column = "id"
    /\ vi = 1
    /\ validated_dfs = <<>>
    /\ validation_errors = <<>>
    /\ ci = 0
    /\ comparison_results = NoResults
    /\ comparison_warnings = <<>>
    /\ threshold_value = 0
    /\ rows_to_highlight_map = {}
    /\ now = 0
    /\ processed_folder = [p \in {} |-> <<>>]
    /\ excel_outcome = "none"
    /\ response = NoResponse
    /\ di = 1
    /\ cleanup_log = <<>>

Idle == IdlePipeline /\ upload_folder = <<>>

requestVars == <<now, processed_folder, excel_outcome, response, di, cleanup_log>>

\* A request GET /download/<name> has arrived; some of the files are on
\* disk.
InitDownload ==
    /\ Idle
    /\ workers = NoWorkers
    /\ \E filename \in DownloadNames : \E files \in SUBSET DiskFiles :
          download = [pc |-> "requested", filename |-> filename, files |-> files,
                      http |-> 0, served |-> Null, fs_calls |-> <<>>]

DownloadUnchanged ==
    /\ UNCHANGED <<pc, dataframes_data, workers>>
    /\ UNCHANGED requestVars
    /\ UNCHANGED readVars
    /\ UNCHANGED pipelineVars

\* Line 254: the converter of <filename> takes one path segment; a name
\* with a slash, or no name, matches no route of the application.
DownloadRoute ==
    /\ download.pc = "requested"
    /\ IF download.filename = <<>> \/ "/" \in Range(download.filename)
       THEN download' = [download EXCEPT !.pc = "responded", !.http = 404]
       ELSE download' = [download EXCEPT !.pc = "line 257"]
    /\ DownloadUnchanged

\* Lines 257-261.
DownloadValidate ==
    /\ download.pc = "line 257"
    /\ IF IsUnpermitted(download.filename)
       THEN download' = [download EXCEPT !.pc = "responded", !.http = 400]
       ELSE download' = [download EXCEPT !.pc = "line 263"]
    /\ DownloadUnchanged

\* Lines 263-270: os.path.isfile on the joined path.
DownloadIsFile ==
    /\ download.pc = "line 263"
    /\ LET looked == [download EXCEPT
                         !.fs_calls = Append(@, <<"isfile", download.filename>>)]
       IN  IF download.filename \notin download.files
           THEN download' = [looked EXCEPT !.pc = "responded", !.http = 404]
           ELSE download' = [looked EXCEPT !.pc = "line 272"]
    /\ DownloadUnchanged

\* Lines 272-278: the file is sent, or send_from_directory raises.
DownloadSend ==
    /\ download.pc = "line 272"
    /\ \E outcome \in {"sent", "FileNotFoundError", "Exception"} :
         LET sending == [download EXCEPT
                 !.pc = "responded",
                 !.fs_calls = Append(@, <<"send_from_directory", download.filename>>)]
         IN  download' =
                 CASE outcome = "sent" ->
                          [sending EXCEPT !.http = 200, !.served = download.filename]
                   [] outcome = "FileNotFoundError" -> [sending EXCEPT !.http = 404]
                   [] outcome = "Exception" -> [sending EXCEPT !.http = 500]
    /\ DownloadUnchanged

NextDownload ==
    \/ DownloadRoute
    \/ DownloadValidate
    \/ DownloadIsFile
    \/ DownloadSend

SpecDownload == InitDownload /\ [][NextDownload]_vars

(***************************************************************************)
(* process_files run by two threads of the server on one upload folder     *)
(* (app.py lines 91-128 and 236-251), next to upload_files (lines 39-47).  *)
(* Each thread has its own locals; the folder is shared.                   *)
(***************************************************************************)
Workers == {1, 2}

\* Two uploads that parse and validate, with different values.
ConcurrentFiles ==
    [n \in StoredNames |->
        ProcessFileOf(Frame(<<Column("id", "num", <<Num(1)>>),
                              Column("v", "num",
                                     <<IF n = "f1.csv" THEN Num(0) ELSE Num(MaxVal)>>)>>))]

\* The file names of a request.
ConcurrentRequests == SeqsUpTo(StoredNames, 2) \ {<<>>}

\* Both requests have arrived and are about to read (line 91).
InitConcurrent ==
    /\ IdlePipeline
    /\ download = NoDownload
    /\ upload_folder = ConcurrentFiles
    /\ \E names \in [Workers -> ConcurrentRequests] :
          workers = [w \in Workers |->
                        [pc |-> "read", file_names |-> names[w], ri |-> 1,
                         dataframes |-> <<>>, errors |-> <<>>, di |-> 1]]

ConcurrentUnchanged ==
    /\ UNCHANGED <<pc, relative_file_paths, ri, errors_data, parse_attempts,
                   dataframes_data, download>>
    /\ UNCHANGED requestVars
    /\ UNCHANGED pipelineVars

\* csv_handler.py lines 85-158 in thread w: one iteration of the loop over
\* the requested files, on the folder as it is now.
WorkerReadFile(w) ==
    /\ workers[w].pc = "read"
    /\ workers[w].ri <= Len(workers[w].file_names)
    /\ LET filename == workers[w].file_names[workers[w].ri]
           r == ReadFileResult(upload_folder, filename)
       IN  workers' = [workers EXCEPT
               ![w].ri = @ + 1,
               ![w].dataframes =
                   IF r.ok THEN Append(@, [filename |-> filename, dataframe |-> r.df])
                   ELSE @,
               ![w].errors =
                   IF r.ok THEN @
                   ELSE Append(@, [filename |-> filename, error |-> r.error])]
    /\ UNCHANGED upload_folder
    /\ ConcurrentUnchanged

\* app.py lines 105-231 in thread w: the failed returns, or validation,
\* comparison, report and payload, none of which touches the upload folder.
WorkerProcess(w) ==
    /\ workers[w].pc = "read"
    /\ workers[w].ri > Len(workers[w].file_names)
    /\ LET parsed == workers[w].dataframes
           validated == {d \in DOMAIN parsed :
                            ValidateItemResult(parsed[d], "id").ok}
       IN  IF (parsed = <<>> /\ workers[w].errors # <<>>) \/ validated = {}
           THEN workers' = [workers EXCEPT ![w].pc = "returned"]
           ELSE workers' = [workers EXCEPT ![w].pc = "cleanup", ![w].di = 1]
    /\ UNCHANGED upload_folder
    /\ ConcurrentUnchanged

\* app.py lines 237-247 in thread w: one iteration of the cleanup loop.
WorkerCleanupFile(w) ==
    /\ workers[w].pc = "cleanup"
    /\ workers[w].di <= Len(workers[w].file_names)
    /\ LET uploaded_filename == workers[w].file_names[workers[w].di] IN
       IF uploaded_filename \in DOMAIN upload_folder
       THEN \E fails \in BOOLEAN :
               IF fails THEN UNCHANGED upload_folder
               ELSE upload_folder' =
                        [f \in DOMAIN upload_folder \ {uploaded_filename} |->
                            upload_folder[f]]
       ELSE UNCHANGED upload_folder
    /\ workers' = [workers EXCEPT ![w].di = @ + 1]
    /\ ConcurrentUnchanged

\* app.py line 251 in thread w.
WorkerReturn(w) ==
    /\ workers[w].pc = "cleanup"
    /\ workers[w].di > Len(workers[w].file_names)
    /\ workers' = [workers EXCEPT ![w].pc = "returned"]
    /\ UNCHANGED upload_folder
    /\ ConcurrentUnchanged

\* app.py lines 39-47: an upload is saved under its name, over the file of
\* that name if there is one.
Upload ==
    /\ \E filename \in StoredNames : \E file \in Range(ConcurrentFiles) :
          /\ (filename \in DOMAIN upload_folder => upload_folder[filename] # file)
          /\ upload_folder' = (filename :> file) @@ upload_folder
    /\ UNCHANGED workers
    /\ ConcurrentUnchanged

NextConcurrent ==
    \/ \E w \in Workers : WorkerReadFile(w)
    \/ \E w \in Workers : WorkerProcess(w)
    \/ \E w \in Workers : WorkerCleanupFile(w)
    \/ \E w \in Workers : WorkerReturn(w)
    \/ Upload

SpecConcurrent == InitConcurrent /\ [][NextConcurrent]_vars

(***************************************************************************)
(* Reading claims.                                                         *)
(***************************************************************************)
\* The requested names the read loop has gone through.
ReadSoFar == 1 .. (ri - 1)

RECURSIVE Offset(_, _)
\* The number of bytes before the i-th run.
Offset(runs, i) == IF i = 1 THEN 0 ELSE Offset(runs, i - 1) + runs[i - 1].len

NullInFirst1024Bytes(file) ==
    \E i \in DOMAIN file.bytes :
        file.bytes[i].kind = "nul" /\ file.bytes[i].len > 0
        /\ Offset(file.bytes, i) < 1024

\* C4: a requested file that exists and has a null byte among its first
\* 1024 bytes gets one "binary" error per time it is requested and no other
\* error, no decode or parse is attempted on it under any encoding, and it
\* is not among the parsed tables.
C4_BinaryRejectedWithoutDecoding ==
    \A j \in ReadSoFar :
        LET filename == relative_file_paths[j] IN
        (filename \in DOMAIN upload_folder
            /\ NullInFirst1024Bytes(upload_folder[filename])) =>
            /\ \A e \in DOMAIN errors_data :
                  errors_data[e].filename = filename =>
                      errors_data[e].error = "Binary"
            /\ Cardinality({e \in DOMAIN errors_data :
                                errors_data[e].filename = filename})
               = Cardinality({x \in ReadSoFar : relative_file_paths[x] = filename})
            /\ \A a \in DOMAIN parse_attempts :
                  parse_attempts[a].filename # filename
            /\ \A d \in DOMAIN dataframes_data :
                  dataframes_data[d].filename # filename

\* C4 witness: a readable file whose only null byte is the last byte of the
\* first 1024 has its binary error, while a file whose null byte is the
\* first byte after them has been decoded and parsed.
C4_Witness ==
    /\ pc = "parsed"
    /\ \E j \in ReadSoFar :
          LET filename == relative_file_paths[j] IN
          /\ filename \in DOMAIN upload_folder
          /\ upload_folder[filename].readable
          /\ upload_folder[filename].bytes = <<Run("text", 1023), Run("nul", 1)>>
          /\ \E e \in DOMAIN errors_data :
                errors_data[e] = [filename |-> filename, error |-> "Binary"]
    /\ \E j \in ReadSoFar :
          LET filename == relative_file_paths[j] IN
          /\ filename \in DOMAIN upload_folder
          /\ upload_folder[filename].bytes = <<Run("text", 1024), Run("nul", 1)>>
          /\ \E a \in DOMAIN parse_attempts : parse_attempts[a].filename = filename
          /\ \E d \in DOMAIN dataframes_data : dataframes_data[d].filename = filename

(***************************************************************************)
(* Validation claims.                                                      *)
(***************************************************************************)
\* The items the validation loop has gone through.
Processed == 1 .. (vi - 1)

KeyAbsent(df) == ~HasColumn(df, operation_column)

\* The key column as it stands after the coercion of a non-numeric column.
CoercedKey(df) ==
    IF df.dtype[operation_column] = "num" THEN df.data[operation_column]
    ELSE [i \in DOMAIN df.data[operation_column] |->
            to_numeric_cell(df.data[operation_column][i])]

\* Coercion loses every key value, and there was one to lose.
AllKeysLost(df) ==
    /\ df.dtype[operation_column] # "num"
    /\ \E i \in DOMAIN df.data[operation_column] :
          ~isna(df.data[operation_column][i])
    /\ \A i \in DOMAIN CoercedKey(df) : isna(CoercedKey(df)[i])

HasMissingKey(df) == \E i \in DOMAIN CoercedKey(df) : isna(CoercedKey(df)[i])

NoComparableColumn(df) ==
    ~\E c \in Range(df.columns) : c # operation_column /\ df.dtype[c] = "num"

MissingValueKinds == {"ConvertedNaN", "ContainsNaN"}

\* The check of the documented order that a table fails first.
FirstFailingCheck(df) ==
    IF KeyAbsent(df) THEN "not found"
    ELSE IF AllKeysLost(df) THEN "data loss"
    ELSE IF HasMissingKey(df) THEN "missing values"
    ELSE IF NoComparableColumn(df) THEN "no comparable columns"
    ELSE "none"

CheckOfDiagnostic(kind) ==
    IF kind = "NotFound" THEN "not found"
    ELSE IF kind = "DataLoss" THEN "data loss"
    ELSE IF kind \in MissingValueKinds THEN "missing values"
    ELSE "no comparable columns"

RECURSIVE ExpectedDiagnostics(_)
\* The (file, first failing check) of the rejected ones of the first n items.
ExpectedDiagnostics(n) ==
    IF n = 0 THEN <<>>
    ELSE ExpectedDiagnostics(n - 1) \o
         (IF FirstFailingCheck(dataframes_data[n].dataframe) = "none" THEN <<>>
          ELSE << <<dataframes_data[n].filename,
                    FirstFailingCheck(dataframes_data[n].dataframe)>> >>)

RECURSIVE ExpectedAccepted(_)
ExpectedAccepted(n) ==
    IF n = 0 THEN <<>>
    ELSE ExpectedAccepted(n - 1) \o
         (IF FirstFailingCheck(dataframes_data[n].dataframe) = "none"
          THEN <<dataframes_data[n].filename>> ELSE <<>>)

\* C5 as stated: every table gone through validation whose key column holds
\* a missing value, before or after coercion, is rejected with a
\* missing-values diagnostic and is not in the validated list.
C5_MissingKeyGivesMissingValuesDiagnostic ==
    \A i \in Processed :
        LET item == dataframes_data[i] IN
        (~KeyAbsent(item.dataframe) /\ HasMissingKey(item.dataframe)) =>
            /\ \E e \in Range(validation_errors) :
                  e.filename = item.filename /\ e.error \in MissingValueKinds
            /\ ~\E v \in Range(validated_dfs) : v.filename = item.filename

\* C5 (amended): every table gone through validation whose key column holds
\* a missing value, before or after coercion, is rejected and is not in the
\* validated list, rows dropped or not; its one diagnostic is the data-loss
\* one when the column was not numeric and coercion lost every value of at
\* least one present, and a missing-values one otherwise.
C5_MissingKeyAlwaysRejected ==
    \A i \in Processed :
        LET item == dataframes_data[i] IN
        (~KeyAbsent(item.dataframe) /\ HasMissingKey(item.dataframe)) =>
            /\ ~\E v \in Range(validated_dfs) : v.filename = item.filename
            /\ \A e \in Range(validation_errors) :
                  e.filename = item.filename =>
                      IF AllKeysLost(item.dataframe) THEN e.error = "DataLoss"
                      ELSE e.error \in MissingValueKinds
            /\ Cardinality({j \in DOMAIN validation_errors :
                    validation_errors[j].filename = item.filename}) = 1

\* C5 witness: a numeric key column with a value and a missing value has
\* been rejected with the missing-values diagnostic.
C5_Witness ==
    \E i \in Processed :
        LET df == dataframes_data[i].dataframe IN
        /\ ~KeyAbsent(df)
        /\ df.dtype[operation_column] = "num"
        /\ \E a, b \in DOMAIN df.data[operation_column] :
              isna(df.data[operation_column][a]) /\ ~isna(df.data[operation_column][b])
        /\ \E e \in Range(validation_errors) :
              e.filename = dataframes_data[i].filename /\ e.error = "ContainsNaN"

\* C6: every validated table has the key column, numeric and without a
\* missing value, and a non-empty list of comparable columns that leaves out
\* the key column and names numeric columns of that table only.
C6_ValidatedTablesAreJoinable ==
    \A i \in DOMAIN validated_dfs :
        LET v == validated_dfs[i] IN
        /\ HasColumn(v.dataframe, operation_column)
        /\ v.dataframe.dtype[operation_column] = "num"
        /\ \A r \in DOMAIN v.dataframe.data[operation_column] :
              v.dataframe.data[operation_column][r].t = "num"
        /\ v.numeric_columns # <<>>
        /\ \A n \in DOMAIN v.numeric_columns :
              /\ v.numeric_columns[n] # operation_column
              /\ HasColumn(v.dataframe, v.numeric_columns[n])
              /\ v.dataframe.dtype[v.numeric_columns[n]] = "num"

\* C6 witness: a table whose key column was text has been validated.
C6_Witness ==
    \E i \in Processed :
        /\ ~KeyAbsent(dataframes_data[i].dataframe)
        /\ dataframes_data[i].dataframe.dtype[operation_column] = "obj"
        /\ NRows(dataframes_data[i].dataframe) > 0
        /\ \E v \in Range(validated_dfs) : v.filename = dataframes_data[i].filename

\* C7: the diagnostics are, in order, one per rejected table, that of the
\* first check the table fails in the order not found, data loss, missing
\* key values, no comparable columns; the accepted tables are the others.
C7_FirstFailingCheckOnly ==
    /\ [j \in DOMAIN validation_errors |->
          <<validation_errors[j].filename,
            CheckOfDiagnostic(validation_errors[j].error)>>]
       = ExpectedDiagnostics(vi - 1)
    /\ [j \in DOMAIN validated_dfs |-> validated_dfs[j].filename]
       = ExpectedAccepted(vi - 1)

\* C7 witness: a table failing two checks (a missing key value and no
\* comparable column) after an accepted one has its single diagnostic.
C7_Witness ==
    /\ pc = "compare"
    /\ Len(validated_dfs) = 1
    /\ Len(validation_errors) = 1
    /\ \E i \in Processed :
          LET df == dataframes_data[i].dataframe IN
          /\ ~KeyAbsent(df) /\ ~AllKeysLost(df)
          /\ HasMissingKey(df) /\ NoComparableColumn(df)
          /\ validation_errors[1].filename = dataframes_data[i].filename

(***************************************************************************)
(* Delimited-text claims.                                                  *)
(***************************************************************************)
\* The tables read_csv_files returned for a file name, and its errors.
TablesOf(filename) ==
    {d \in DOMAIN dataframes_data : dataframes_data[d].filename = filename}

ErrorsOf(filename) ==
    {e \in DOMAIN errors_data : errors_data[e].filename = filename}

RequestsOf(filename) ==
    {j \in ReadSoFar : relative_file_paths[j] = filename}

\* The stored file is the header line of these names under this delimiter.
IsHeaderOnly(file, names, sep) == file.lines = <<JoinFields(names, sep)>>

\* C12 as stated: a requested file that is only a header line of two or
\* more names under one of the four delimiters gives, per request, one
\* table without rows whose columns are those names in order, and no error.
C12_HeaderOnlyParsesToItsColumns ==
    \A j \in ReadSoFar :
        LET filename == relative_file_paths[j]
            file == upload_folder[filename]
        IN  \A names \in ColumnLists : \A sep \in Range(common_delimiters) :
                IsHeaderOnly(file, names, sep) =>
                    /\ ErrorsOf(filename) = {}
                    /\ Cardinality(TablesOf(filename))
                         = Cardinality(RequestsOf(filename))
                    /\ \A d \in TablesOf(filename) :
                          /\ NRows(dataframes_data[d].dataframe) = 0
                          /\ dataframes_data[d].dataframe.columns
                               = [x \in DOMAIN names |-> Join(names[x])]

\* Every file of the folder is the text of the table under its delimiter.
HoldsTable(folder, table) ==
    \A n \in DOMAIN DelimiterOf : folder[n].lines = Serialize(table, DelimiterOf[n])

C18_NoPathWrittenTwice ==
    \A path \in DOMAIN processed_folder : processed_folder[path].written <= 1

\* C19 as stated: every artifact holds the Summary sheet and one sheet per
\* validated table, n + 1 sheets for n tables, and every sheet holds what
\* one write put there: the summary, or the rows of one table.
C19_OneSheetPerTable ==
    \A path \in DOMAIN processed_folder :
        LET sheets == processed_folder[path].sheets IN
        /\ Cardinality(DOMAIN sheets) = Len(dataframes_data) + 1
        /\ \A name \in DOMAIN sheets : Len(sheets[name]) = 1
        /\ sheets["Summary"] = <<[table |-> 0, filename |-> "Summary"]>>
        /\ \A i \in DOMAIN dataframes_data :
              \E name \in DOMAIN sheets :
                  sheets[name] = <<[table |-> i, filename |-> dataframes_data[i].filename]>>

(***************************************************************************)
(* Service claims.                                                         *)
(***************************************************************************)
AllErrors == errors_data \o validation_errors

\* The errors of a response that name a file, and the validated tables of
\* that name.
ResponseErrorsOf(filename) ==
    {e \in DOMAIN response.errors : response.errors[e].filename = filename}

ValidatedOf(filename) ==
    {v \in DOMAIN validated_dfs : validated_dfs[v].filename = filename}

\* C15: a failed response is given only when no file was parsed or no
\* table passed validation; when a table passed validation the response
\* is not failed, the comparison has been run and its summary is in the
\* response, and the response carries every read and validation error:
\* each request for a file name is accounted for by an error under that
\* name or by a validated table of that name.
C15_PerFileFailureDoesNotFailRequest ==
    response.sent =>
        /\ response.status = "failed" =>
              (dataframes_data = <<>> \/ validated_dfs = <<>>)
        /\ validated_dfs # <<>> =>
              /\ response.status # "failed"
              /\ pc \in {"cleanup", "returned"}
              /\ ci > Len(validated_dfs) \/ Len(validated_dfs) < 2
              /\ response.comparison_summary = ComparisonSummary(comparison_results)
              /\ response.errors = AllErrors
              /\ \A j \in DOMAIN relative_file_paths :
                    LET f == relative_file_paths[j] IN
                    Cardinality({x \in DOMAIN relative_file_paths :
                                    relative_file_paths[x] = f})
                      = Cardinality(ResponseErrorsOf(f)) + Cardinality(ValidatedOf(f))

\* C15 witness: a response that is not failed, with a read error and a
\* validation error under the names of their files, and a validated table.
C15_Witness ==
    /\ pc = "returned"
    /\ response.status # "failed"
    /\ validated_dfs # <<>>
    /\ \E e \in DOMAIN errors_data :
          /\ errors_data[e].filename = "missing.csv"
          /\ ResponseErrorsOf("missing.csv") # {}
    /\ \E e \in DOMAIN validation_errors :
          /\ validation_errors[e].filename \in DOMAIN upload_folder \cup Range(cleanup_log)
                                             \cup Range(relative_file_paths)
          /\ ResponseErrorsOf(validation_errors[e].filename) # {}

\* C16 as stated: the status of every response of the process endpoint is
\* success, partial_success or failed.
C16_StatusIsOneOfThree ==
    response.sent => response.status \in {"success", "partial_success", "failed"}

ExcelGenerationWarning == Warning("ExcelGenerationError", "", "", "")

\* C17: when the report generation raises, the step that handles it gives
\* a response that is not failed, whose warnings are the warnings so far
\* followed by one report-generation warning, whose artifact name is null,
\* and whose comparison summary, validated-file summary and errors are
\* those of the results, tables and errors as they were before the step;
\* nothing is written to the report directory.
C17_ReportFailureIsAWarning ==
    [][ (pc = "report" /\ excel_outcome' = "raised") =>
          /\ response'.sent
          /\ response'.status # "failed"
          /\ response'.warnings = Append(comparison_warnings, ExcelGenerationWarning)
          /\ response'.excel_report_filename = Null
          /\ response'.comparison_summary = ComparisonSummary(comparison_results)
          /\ response'.validated_files_summary = ValidatedFilesSummary(validated_dfs)
          /\ response'.errors = AllErrors
          /\ processed_folder' = processed_folder
          /\ pc' = "cleanup"
    ]_vars

\* C17 witness: the request has returned after a report generation that
\* raised, with a comparison warning before the report-generation warning,
\* an error, a validated table and a compared series in the response.
C17_Witness ==
    /\ pc = "returned"
    /\ excel_outcome = "raised"
    /\ Len(response.warnings) >= 2
    /\ response.warnings[Len(response.warnings)] = ExcelGenerationWarning
    /\ response.errors # <<>>
    /\ DOMAIN response.comparison_summary # {}
    /\ response.validated_files_summary # <<>>

\* C20 as stated: when the request has returned, whatever its status,
\* every requested upload is gone from the upload folder, or its removal
\* failed and was printed.
C20_UploadsDeletedWhateverTheOutcome ==
    pc = "returned" =>
        \A j \in DOMAIN relative_file_paths :
            \/ relative_file_paths[j] \notin DOMAIN upload_folder
            \/ relative_file_paths[j] \in Range(cleanup_log)

(***************************************************************************)
(* Comparison claims.                                                      *)
(***************************************************************************)
\* The "other" tables the comparison loop has gone through.
Compared == {i \in 2 .. Len(validated_dfs) : pc # "compare" /\ pc # "validate" /\ i < ci}

KeyValues(df) == Range(df.data[operation_column])

\* The pairs of rows of two tables that carry the same key value.
MatchingRows(r, o) ==
    {p \in (DOMAIN r.data[operation_column]) \X (DOMAIN o.data[operation_column]) :
        r.data[operation_column][p[1]] = o.data[operation_column][p[2]]}

\* |x - y| of two cells as the larger minus the smaller; missing if either is.
Distance(x, y) ==
    IF x.t = "nan" \/ y.t = "nan" THEN NaN
    ELSE IF x.n >= y.n THEN Num(x.n - y.n) ELSE Num(y.n - x.n)

\* The entry the joined rows p of tables r and o give for column c.
EntryOf(r, o, c, p) ==
    [key |-> r.data[operation_column][p[1]],
     difference |-> Distance(r.data[c][p[1]], o.data[c][p[2]])]

SeriesIsJoin(series, r, o, c) ==
    /\ {series[x].key : x \in DOMAIN series} = KeyValues(r) \cap KeyValues(o)
    /\ \A x \in DOMAIN series :
          \E p \in MatchingRows(r, o) : series[x] = EntryOf(r, o, c, p)
    /\ \A p \in MatchingRows(r, o) :
          \E x \in DOMAIN series : series[x] = EntryOf(r, o, c, p)
    /\ Len(series) = Cardinality(MatchingRows(r, o))

\* C1: every stored series is the inner join of the reference with a table
\* compared under the series' file name: its key values are exactly those
\* the two key columns share, and its entries are, joined row by joined
\* row, the key value with |reference cell - other cell|.
C1_SeriesIsInnerJoinWithAbsDifference ==
    \A k \in DOMAIN comparison_results :
        \E i \in Compared :
            /\ validated_dfs[i].filename = k[3]
            /\ HasColumn(validated_dfs[1].dataframe, k[1])
            /\ HasColumn(validated_dfs[i].dataframe, k[1])
            /\ SeriesIsJoin(comparison_results[k], validated_dfs[1].dataframe,
                            validated_dfs[i].dataframe, k[1])

\* C1 witness: a stored series with a non-zero difference whose reference
\* has a key value the other table lacks and the other one the reference lacks.
C1_Witness ==
    \E k \in DOMAIN comparison_results :
        /\ \E x \in DOMAIN comparison_results[k] :
              /\ comparison_results[k][x].difference.t = "num"
              /\ comparison_results[k][x].difference.n > 0
        /\ \E i \in Compared :
              /\ validated_dfs[i].filename = k[3]
              /\ KeyValues(validated_dfs[1].dataframe)
                    \ KeyValues(validated_dfs[i].dataframe) # {}
              /\ KeyValues(validated_dfs[i].dataframe)
                    \ KeyValues(validated_dfs[1].dataframe) # {}

\* C8: with fewer than two validated tables the comparison returns exactly
\* one setup warning and an empty result map.
C8_FewerThanTwoTables ==
    (pc \in {"report", "done"} /\ Len(validated_dfs) < 2) =>
        /\ comparison_results = NoResults
        /\ Len(comparison_warnings) = 1
        /\ comparison_warnings[1].type = "SetupWarning"

\* C8 witness: the comparison has returned for a single validated table.
C8_Witness ==
    /\ pc = "report"
    /\ Len(validated_dfs) = 1
    /\ Len(comparison_warnings) = 1

\* C9: every series is keyed by a comparable column of the first table, the
\* first table's name as reference, and the name of a table at position 2
\* or later; its key values are key values of the first table.
C9_FirstTableIsTheReference ==
    \A k \in DOMAIN comparison_results :
        /\ k[2] = validated_dfs[1].filename
        /\ k[1] \in Range(validated_dfs[1].numeric_columns)
        /\ \E i \in 2 .. Len(validated_dfs) : validated_dfs[i].filename = k[3]
        /\ \A x \in DOMAIN comparison_results[k] :
              comparison_results[k][x].key \in KeyValues(validated_dfs[1].dataframe)

\* C9 witness: three tables compared, a series for each of the two others.
C9_Witness ==
    /\ pc = "report"
    /\ Len(validated_dfs) = 3
    /\ \E j, k \in DOMAIN comparison_results :
          /\ j[3] = validated_dfs[2].filename
          /\ k[3] = validated_dfs[3].filename
          /\ j[3] # k[3]

\* The warnings a step of the comparison loop adds.
NewWarnings ==
    {j \in DOMAIN comparison_warnings' : j > Len(comparison_warnings)}

\* C10 as stated: when a comparable column c of the reference is not among
\* the other table's comparable columns and the join is not empty, the
\* iteration for that pair adds exactly one warning for c, of the
\* column-missing-in-other-file kind, stores no series for c, and stores
\* the series of every column both tables have.
C10_MissingColumnWarningKind ==
    [][ (pc = "compare_loop" /\ ci <= Len(validated_dfs) /\ ci' = ci + 1) =>
          LET ref == validated_dfs[1]
              other == validated_dfs[ci]
          IN  MatchingRows(ref.dataframe, other.dataframe) # {} =>
                \A n \in DOMAIN ref.numeric_columns :
                    LET c == ref.numeric_columns[n]
                        key == <<c, ref.filename, other.filename>>
                    IN  IF c \in Range(other.numeric_columns)
                        THEN key \in DOMAIN comparison_results'
                        ELSE /\ Cardinality({j \in NewWarnings :
                                    comparison_warnings'[j].column = c}) = 1
                             /\ \A j \in NewWarnings :
                                    comparison_warnings'[j].column = c =>
                                        comparison_warnings'[j].type
                                            = "ColumnMissingInOtherWarning"
                             /\ (key \in DOMAIN comparison_results' =>
                                    /\ key \in DOMAIN comparison_results
                                    /\ comparison_results'[key]
                                         = comparison_results[key])
    ]_vars

\* The compared tables of a file name whose join with the reference is
\* empty, and those whose join is not.
EmptyJoins(name) ==
    {j \in Compared :
        /\ validated_dfs[j].filename = name
        /\ MatchingRows(validated_dfs[1].dataframe, validated_dfs[j].dataframe) = {}}

NonEmptyJoins(name) ==
    {j \in Compared :
        /\ validated_dfs[j].filename = name
        /\ MatchingRows(validated_dfs[1].dataframe, validated_dfs[j].dataframe) # {}}

WarningsAbout(name) ==
    {w \in DOMAIN comparison_warnings : comparison_warnings[w].other = name}

\* C11: at every point of the comparison loop, each pair gone through
\* whose join was empty has left exactly one empty-join warning and no
\* series or other warning, and each pair gone through whose join was not
\* empty has, for every column the reference and the other table both list
\* as numeric, its series in the result map, whatever warnings later or
\* earlier pairs added.
C11_WarningsAreAdditive ==
    \A i \in Compared :
        LET ref == validated_dfs[1]
            other == validated_dfs[i]
        IN  /\ Cardinality({w \in WarningsAbout(other.filename) :
                    comparison_warnings[w].type = "MergeWarning"})
                 = Cardinality(EmptyJoins(other.filename))
            /\ NonEmptyJoins(other.filename) = {} =>
                  /\ \A w \in WarningsAbout(other.filename) :
                        comparison_warnings[w].type = "MergeWarning"
                  /\ \A k \in DOMAIN comparison_results : k[3] # other.filename
            /\ i \in NonEmptyJoins(other.filename) =>
                  \A c \in Range(ref.numeric_columns) \cap Range(other.numeric_columns) :
                      <<c, ref.filename, other.filename>> \in DOMAIN comparison_results

\* C11 witness: of three differently named tables the second had an empty
\* join with the reference and left its warning, and the third, compared
\* after it, has its series stored.
C11_Witness ==
    /\ pc = "report"
    /\ Len(validated_dfs) = 3
    /\ validated_dfs[2].filename # validated_dfs[3].filename
    /\ EmptyJoins(validated_dfs[2].filename) = {2}
    /\ NonEmptyJoins(validated_dfs[3].filename) = {3}
    /\ \E w \in DOMAIN comparison_warnings :
          comparison_warnings[w] = Warning("MergeWarning", "",
              validated_dfs[1].filename, validated_dfs[2].filename)
    /\ \E k \in DOMAIN comparison_results : k[3] = validated_dfs[3].filename

(***************************************************************************)
(* Highlight claims.                                                       *)
(***************************************************************************)
\* The entries (series key, row) of the result map.
Entries ==
    {e \in UNION {{<<k, x>> : x \in DOMAIN comparison_results[k]}
                    : k \in DOMAIN comparison_results} : TRUE}

Difference(e) == comparison_results[e[1]][e[2]].difference
KeyValue(e) == comparison_results[e[1]][e[2]].key.n

StrictlyAbove(e) == Difference(e).t = "num" /\ Difference(e).n > threshold_value

\* C2: an entry whose difference equals the threshold does not flag its
\* rows: when (file, key value) of such an entry is in the highlight set,
\* some entry of a series of that file with that key value is strictly
\* above the threshold.
C2_EqualToThresholdNotHighlighted ==
    pc = "done" =>
        \A e \in Entries :
            (Difference(e).t = "num" /\ Difference(e).n = threshold_value) =>
                \A f \in {e[1][2], e[1][3]} :
                    <<f, KeyValue(e)>> \in rows_to_highlight_map =>
                        \E g \in Entries :
                            /\ f \in {g[1][2], g[1][3]}
                            /\ KeyValue(g) = KeyValue(e)
                            /\ StrictlyAbove(g)

\* C2 witness: an entry equal to the threshold whose rows are not flagged
\* while another entry is above the threshold and flagged.
C2_Witness ==
    /\ pc = "done"
    /\ rows_to_highlight_map # {}
    /\ \E e \in Entries :
          /\ Difference(e).t = "num" /\ Difference(e).n = threshold_value
          /\ <<e[1][2], KeyValue(e)>> \notin rows_to_highlight_map
          /\ <<e[1][3], KeyValue(e)>> \notin rows_to_highlight_map

\* C3: every entry above the threshold puts both (reference file, key
\* value) and (other file, key value) in the highlight set, and every pair
\* of the set comes from such an entry.
C3_SymmetricAttribution ==
    pc = "done" =>
        /\ \A e \in Entries :
              StrictlyAbove(e) =>
                  /\ <<e[1][2], KeyValue(e)>> \in rows_to_highlight_map
                  /\ <<e[1][3], KeyValue(e)>> \in rows_to_highlight_map
        /\ \A h \in rows_to_highlight_map :
              \E e \in Entries :
                  /\ StrictlyAbove(e)
                  /\ h[2] = KeyValue(e)
                  /\ h[1] \in {e[1][2], e[1][3]}

\* C3 witness: an entry above the threshold, between two differently named
\* files, with both rows flagged, and an entry not above it.
C3_Witness ==
    /\ pc = "done"
    /\ \E e \in Entries :
          /\ StrictlyAbove(e)
          /\ e[1][2] # e[1][3]
          /\ <<e[1][2], KeyValue(e)>> \in rows_to_highlight_map
          /\ <<e[1][3], KeyValue(e)>> \in rows_to_highlight_map
    /\ \E e \in Entries : ~StrictlyAbove(e)

(***************************************************************************)
(* Summary sheet claims.                                                   *)
(***************************************************************************)
\* The artifact of the report generation of the current second.
ReportArtifact == processed_folder[unique_filename(output_filename_base, now)]

\* The rows of the i-th validated table whose (file name, key value) is in
\* the highlight set.
FlaggedRows(i) ==
    LET df == validated_dfs[i].dataframe IN
    {r \in 1 .. NRows(df) :
        <<validated_dfs[i].filename, df.data[operation_column][r].n>>
            \in rows_to_highlight_map}

\* The rows of the i-th validated table with a key value.
RowsWithKey(i, key) ==
    LET df == validated_dfs[i].dataframe IN
    {r \in 1 .. NRows(df) : df.data[operation_column][r].n = key}

EntriesAbove == {e \in Entries : StrictlyAbove(e)}

\* C21: the Summary sheet of a report has one count per validated table,
\* in order and under the table's file name, and the count is the number of
\* rows of the table whose (file name, key value) is in the highlight set.
\* When no difference is above the threshold every count is 0.  When one
\* difference only is above the threshold, at a key value that every table
\* of the two compared files holds in one row, the count is 1 for the
\* tables of the reference file and of the other file, and 0 for the rest.
C21_SummaryCountsFlaggedRows ==
    pc = "done" =>
        LET counts == ReportArtifact.summary.highlighted IN
        /\ DOMAIN counts = DOMAIN validated_dfs
        /\ \A i \in DOMAIN validated_dfs :
              /\ counts[i].filename = validated_dfs[i].filename
              /\ counts[i].count = <<Cardinality(FlaggedRows(i))>>
        /\ EntriesAbove = {} =>
              \A i \in DOMAIN validated_dfs : counts[i].count = <<0>>
        /\ \A e \in Entries :
              (/\ EntriesAbove = {e}
               /\ \A i \in DOMAIN validated_dfs :
                     validated_dfs[i].filename \in {e[1][2], e[1][3]} =>
                         Cardinality(RowsWithKey(i, KeyValue(e))) = 1)
              => \A i \in DOMAIN validated_dfs :
                     counts[i].count =
                         IF validated_dfs[i].filename \in {e[1][2], e[1][3]}
                         THEN <<1>> ELSE <<0>>

\* C21 witness: a report whose only difference above the threshold is
\* between two differently named files, counted 1 for each of them, next to
\* a third file counted 0.
C21_Witness ==
    /\ pc = "done"
    /\ Len(validated_dfs) = 3
    /\ \E e \in Entries :
          /\ EntriesAbove = {e}
          /\ e[1][2] # e[1][3]
          /\ \A i \in DOMAIN validated_dfs :
                ReportArtifact.summary.highlighted[i].count =
                    IF validated_dfs[i].filename \in {e[1][2], e[1][3]}
                    THEN <<1>> ELSE <<0>>
          /\ \E i \in DOMAIN validated_dfs :
                ReportArtifact.summary.highlighted[i].count = <<0>>

(***************************************************************************)
(* Over-splitting claims.                                                  *)
(***************************************************************************)
\* None of the four delimiters occurs in the first five lines of the file.
SampleShowsNoDelimiter(file) ==
    \A i \in DOMAIN file.lines :
        i <= 5 => \A d \in Range(common_delimiters) : d \notin Range(file.lines[i])

\* The parse the encodings agree on has more than one column.
SplitInColumns(file) ==
    \A e \in DOMAIN file.parse :
        file.parse[e].kind = "df" /\ NCols(file.parse[e].df) > 1

\* The table has one column and its cells are the lines, in order.
HoldsRawLines(df, lines) ==
    /\ NCols(df) = 1
    /\ NRows(df) = Len(lines)
    /\ \A r \in DOMAIN lines : df.data[df.columns[1]][r] = Str(Join(lines[r]))

\* C23 as stated: a requested file whose parse has more than one column
\* while none of the four delimiters is in its first five lines gives, per
\* request, a table of exactly one column that holds the raw lines.
C23_SpuriousSplitIsDiscarded ==
    \A j \in ReadSoFar :
        LET filename == relative_file_paths[j] IN
        (/\ filename \in DOMAIN upload_folder
         /\ SplitInColumns(upload_folder[filename])
         /\ SampleShowsNoDelimiter(upload_folder[filename]))
        => /\ ErrorsOf(filename) = {}
           /\ Cardinality(TablesOf(filename)) = Cardinality(RequestsOf(filename))
           /\ \A d \in TablesOf(filename) :
                 HoldsRawLines(dataframes_data[d].dataframe,
                               upload_folder[filename].lines)

(***************************************************************************)
(* Partition claims.                                                       *)
(***************************************************************************)
\* What read_csv_files gives for a list of this one name: a table or an
\* error.
Alone(filename) ==
    IF filename \notin DOMAIN upload_folder
    THEN [ok |-> FALSE, error |-> "NotFound", df |-> EmptyFrame]
    ELSE IF \/ ~upload_folder[filename].readable
            \/ NullInFirst1024Bytes(upload_folder[filename])
    THEN [ok |-> FALSE, error |-> "Binary", df |-> EmptyFrame]
    ELSE LET r == ParseFile(upload_folder[filename])
         IN  [ok |-> r.ok, error |-> r.error, df |-> r.df]

\* C25: the requests gone through so far each gave one record, a table or
\* an error: the tables are, in request order, those of the requests whose
\* file gives a table when read alone, the errors are, in request order,
\* those of the other requests, each the error its file gives alone.
C25_ReadPartitionsRequest ==
    LET alone == [j \in ReadSoFar |->
                     [filename |-> relative_file_paths[j],
                      r |-> Alone(relative_file_paths[j])]]
        IsTable(x) == x.r.ok
        IsError(x) == ~x.r.ok
        tables == SelectSeq(alone, IsTable)
        failed == SelectSeq(alone, IsError)
    IN  /\ Len(dataframes_data) + Len(errors_data) = ri - 1
        /\ dataframes_data =
              [i \in DOMAIN tables |->
                  [filename |-> tables[i].filename, dataframe |-> tables[i].r.df]]
        /\ errors_data =
              [i \in DOMAIN failed |->
                  [filename |-> failed[i].filename, error |-> failed[i].r.error]]

\* C25 witness: a call of three names has returned one table between two
\* errors of different kinds, or two tables around an error.
C25_Witness ==
    /\ pc = "parsed"
    /\ Len(relative_file_paths) = 3
    /\ \/ /\ Len(dataframes_data) = 1
          /\ dataframes_data[1].filename = relative_file_paths[2]
          /\ Len(errors_data) = 2
          /\ errors_data[1].filename = relative_file_paths[1]
          /\ errors_data[2].filename = relative_file_paths[3]
          /\ errors_data[1].error # errors_data[2].error
       \/ /\ Len(dataframes_data) = 2
          /\ dataframes_data[1].filename = relative_file_paths[1]
          /\ dataframes_data[2].filename = relative_file_paths[3]
          /\ Len(errors_data) = 1
          /\ errors_data[1].filename = relative_file_paths[2]

(***************************************************************************)
(* Download claims.                                                        *)
(***************************************************************************)
\* The name has two dots in a row, starts with a slash or a backslash, or
\* its last five characters are not ".xlsx".
IsBadName(name) ==
    \/ \E i \in DOMAIN name : i < Len(name) /\ name[i] = "." /\ name[i + 1] = "."
    \/ (name # <<>> /\ name[1] \in {"/", "\\"})
    \/ Len(name) < 5
    \/ \E i \in 1 .. 5 : name[Len(name) - 5 + i] # xlsx[i]

\* C22: for a requested name that has a traversal sequence, starts with a
\* slash or a backslash, or does not end in .xlsx, the handler never
\* touches the file system and never serves a file: once it has responded,
\* the response is a rejection.
C22_UnpermittedNameNeverServed ==
    (download.pc # "none" /\ IsBadName(download.filename)) =>
        /\ download.fs_calls = <<>>
        /\ download.served = Null
        /\ download.pc = "responded" => download.http \in {400, 404}

\* C22 witness: the handler has rejected a name that starts with a
\* backslash and ends in .xlsx, without a slash or a traversal sequence,
\* while a file of that name is on disk.
C22_Witness ==
    /\ download.pc = "responded"
    /\ download.http = 400
    /\ download.filename = <<"\\", "r">> \o xlsx
    /\ download.filename \in download.files

(***************************************************************************)
(* Concurrency claims.                                                     *)
(***************************************************************************)
\* What read_csv_files gives a request that runs alone on the folder the
\* two requests found: the table of the file.
TableAlone(filename) == ParseFile(ConcurrentFiles[filename]).df

\* C24 as stated: each of the two requests gets, for every file it has
\* gone through, the table that file gives a request running alone: no
\* error, and no other contents.
C24_ConcurrentRequestsReadAsAlone ==
    \A w \in DOMAIN workers :
        /\ workers[w].errors = <<>>
        /\ Len(workers[w].dataframes) = workers[w].ri - 1
        /\ \A d \in DOMAIN workers[w].dataframes :
              workers[w].dataframes[d].dataframe
                  = TableAlone(workers[w].dataframes[d].filename)

====
